---- MODULE Spec2Model ----
(***************************************************************************)
(* B+ tree over an interchangeable node store (liucanyu0411/skip_list).    *)
(*                                                                         *)
(* Two trees are modelled:                                                 *)
(*   - the full tree  (bptree.c in src/unnamed/part_000): upper-bound      *)
(*     descent, copy-up separators, delete with borrow / merge;            *)
(*   - the simple tree (src/code/bptree.c): plain lower-bound descent,     *)
(*     move-up internal split, delete without rebalancing (names S_...).   *)
(* Nodes live in a heap indexed by address 1..MaxNodes; NULL is 0.  The    *)
(* node store of a node is the sequence of its (key, val) entries, as the  *)
(* array backend (the default of bptree_create) keeps them in keys[0..n-1] *)
(* and vals[0..n-1].  Store indices are 0-based as in the C code.          *)
(***************************************************************************)
EXTENDS Integers, Sequences, FiniteSets, TLC

\* ------------------------------------------------------------------ bounds
MaxKey == 7
MaxOrder == 4

Keys == 1..MaxKey
\* bptree_create clamps every order below 3 up to 3, so 2 is a legal argument
OrderArgs == 2..MaxOrder
\* enough addresses for one leaf per key, their ancestors and a spare
MaxNodes == 2 * MaxKey + 2
Addr == 1..MaxNodes
NULL == 0

\* t, ref, last: a tree, the set of keys it should hold, the last call made;
\* twin: the same calls made on trees over the other backends;
\* ns, nsop: a node store on its own and the last call made on it;
\* drv: the benchmark driver;
\* sl: a skip list on its own
VARIABLES t, ref, last, twin, ns, nsop, drv, sl

vars == <<t, ref, last, twin, ns, nsop, drv, sl>>

\* ------------------------------------------------------------ small helpers
Max(a, b) == IF a >= b THEN a ELSE b

Entry(k, v) == [key |-> k, val |-> v]

\* a failed assert aborts the process: the tree is marked and never used again
Fault(T) == [T EXCEPT !.fault = TRUE]

\* a public call begins: the per-call observers are reset
Begin(T) == [T EXCEPT !.peak = 0, !.freed = 0, !.asc = TRUE, !.lb = TRUE]

\* the keys of the entry sequence s are strictly ascending by index
KeysAscending(s) == \A i \in 1..(Len(s) - 1) : s[i].key < s[i + 1].key

\* ------------------------------------------------- node store (array backend)
ns_size(s) == Len(s)

ns_key_at(s, idx) == s[idx + 1].key

ns_val_at(s, idx) == s[idx + 1].val

RECURSIVE lb_loop(_, _, _, _)
lb_loop(s, key, l, r) ==
    IF l < r
    THEN LET m == l + (r - l) \div 2
         IN  IF s[m + 1].key < key THEN lb_loop(s, key, m + 1, r)
                                   ELSE lb_loop(s, key, l, m)
    ELSE l

ns_lower_bound(s, key) == lb_loop(s, key, 0, Len(s))

\* ------------------------------------------------ node store: the backends
\* The three implementations of struct NodeStore, each with the fields of
\* its C struct.  ok is cleared when an assert of the backend fails.  The
\* tree reaches them through t->ops, modelled by the NodeStoreKind.
NODESTORE_ARRAY == 1
NODESTORE_LINKED == 2
NODESTORE_SKIPLIST == 3

Kinds == {NODESTORE_ARRAY, NODESTORE_LINKED, NODESTORE_SKIPLIST}

\* what a slot of a malloc'ed array holds before it is written; the ops
\* never read a slot at or after n
Junk == "junk"

Abort(s) == [s EXCEPT !.ok = FALSE]

\* "for (int i = s->n; i > idx; --i)": the tail moves one slot right
RECURSIVE shift_right(_, _, _)
shift_right(s, i, idx) ==
    IF i > idx
    THEN shift_right([s EXCEPT !.keys[i] = s.keys[i - 1],
                               !.vals[i] = s.vals[i - 1]], i - 1, idx)
    ELSE s

\* "for (int i = idx; i < s->n - 1; ++i)": the tail moves one slot left
RECURSIVE shift_left(_, _)
shift_left(s, i) ==
    IF i < s.n - 1
    THEN shift_left([s EXCEPT !.keys[i] = s.keys[i + 1],
                              !.vals[i] = s.vals[i + 1]], i + 1)
    ELSE s

\* "for (int i = 0; i < move; ++i)" of ns_split: entries mid.. of left are
\* copied to the front of right
RECURSIVE split_copy(_, _, _, _, _)
split_copy(left, right, mid, move, i) ==
    IF i < move
    THEN split_copy(left,
                    [right EXCEPT !.keys[i] = left.keys[mid + i],
                                  !.vals[i] = left.vals[mid + i]],
                    mid, move, i + 1)
    ELSE right

\* what ns_split leaves: both stores, the returned key, and oob when the
\* call read or wrote outside an object (or through NULL); the run is then
\* over, as it is after a failed assert
SplitResult(left, right, res) ==
    [left |-> left, right |-> right, res |-> res, oob |-> FALSE]

SplitAbort(left, right) ==
    [left |-> Abort(left), right |-> right, res |-> Junk, oob |-> FALSE]

SplitWild(left, right) ==
    [left |-> Abort(left), right |-> right, res |-> Junk, oob |-> TRUE]

\* ---- nodestore_array.c
array_ns_create(capacity) ==
    [kind |-> NODESTORE_ARRAY, ok |-> TRUE, cap |-> capacity, n |-> 0,
     keys |-> [i \in 0..(capacity - 1) |-> Junk],
     vals |-> [i \in 0..(capacity - 1) |-> Junk]]

array_ns_clear(s) == [s EXCEPT !.n = 0]

RECURSIVE array_lb_loop(_, _, _, _)
array_lb_loop(s, key, l, r) ==
    IF l < r
    THEN LET m == l + (r - l) \div 2
         IN  IF s.keys[m] < key THEN array_lb_loop(s, key, m + 1, r)
                                ELSE array_lb_loop(s, key, l, m)
    ELSE l

RECURSIVE array_ub_loop(_, _, _, _)
array_ub_loop(s, key, l, r) ==
    IF l < r
    THEN LET m == l + (r - l) \div 2
         IN  IF s.keys[m] <= key THEN array_ub_loop(s, key, m + 1, r)
                                 ELSE array_ub_loop(s, key, l, m)
    ELSE l

\* ns_lower_bound comparing with <= : the first key greater than key
array_ns_lower_bound_le(s, key) == array_ub_loop(s, key, 0, s.n)

array_ns_lower_bound(s, key) == array_lb_loop(s, key, 0, s.n)

array_ns_insert_at(s, idx, key, val) ==
    IF ~s.ok THEN s
    ELSE IF ~(idx >= 0 /\ idx <= s.n) THEN Abort(s)
    ELSE IF ~(s.n < s.cap) THEN Abort(s)
    ELSE [shift_right(s, s.n, idx) EXCEPT
             !.keys[idx] = key, !.vals[idx] = val, !.n = s.n + 1]

array_ns_erase_at(s, idx) ==
    IF ~s.ok THEN s
    ELSE IF ~(idx >= 0 /\ idx < s.n) THEN Abort(s)
    ELSE [shift_left(s, idx) EXCEPT !.n = s.n - 1]

\* ns_split keeping the larger half on the left
array_ns_split_ceil(left, right) ==
    IF ~(right.n = 0) THEN SplitAbort(left, right)
    ELSE LET n == left.n
             mid == (n + 1) \div 2
             move == n - mid
         IN  IF ~(move <= right.cap) THEN SplitAbort(left, right)
             ELSE IF right.cap = 0 THEN SplitWild(left, right)
             ELSE LET r == [split_copy(left, right, mid, move, 0)
                               EXCEPT !.n = move]
                  IN  SplitResult([left EXCEPT !.n = mid], r, r.keys[0])

\* the return reads right->keys[0] whatever move is: a slot never written
\* when left was empty, and no slot at all when right has capacity 0
array_ns_split(left, right) ==
    IF ~(right.n = 0) THEN SplitAbort(left, right)
    ELSE LET n == left.n
             mid == n \div 2
             move == n - mid
         IN  IF ~(move <= right.cap) THEN SplitAbort(left, right)
             ELSE IF right.cap = 0 THEN SplitWild(left, right)
             ELSE LET r == [split_copy(left, right, mid, move, 0)
                               EXCEPT !.n = move]
                  IN  SplitResult([left EXCEPT !.n = mid], r, r.keys[0])

\* ---- nodestore_list.c: the ListNodes live at addresses 1..cap
FreeCell == [used |-> FALSE, key |-> Junk, val |-> Junk, next |-> 0]

list_ns_create(capacity) ==
    [kind |-> NODESTORE_LINKED, ok |-> TRUE, cap |-> capacity, n |-> 0,
     head |-> 0, cells |-> [a \in 1..capacity |-> FreeCell]]

\* node_new: malloc hands out the lowest free address
node_new(s, key, val) ==
    LET a == CHOOSE a \in 1..s.cap :
                 /\ ~s.cells[a].used
                 /\ \A b \in 1..s.cap : ~s.cells[b].used => a <= b
    IN  [addr |-> a,
         s |-> [s EXCEPT !.cells[a] =
                   [used |-> TRUE, key |-> key, val |-> val, next |-> 0]]]

\* "for (int i = 0; i < idx; ++i) cur = cur->next"
RECURSIVE list_walk(_, _, _)
list_walk(s, cur, i) ==
    IF i > 0 THEN list_walk(s, s.cells[cur].next, i - 1) ELSE cur

list_at(s, idx) == list_walk(s, s.head, idx)

list_ns_clear(s) ==
    [s EXCEPT !.cells = [a \in 1..s.cap |-> FreeCell], !.head = 0, !.n = 0]

RECURSIVE list_lb_loop(_, _, _, _)
list_lb_loop(s, cur, idx, key) ==
    IF cur /= 0
    THEN IF s.cells[cur].key >= key THEN idx
         ELSE list_lb_loop(s, s.cells[cur].next, idx + 1, key)
    ELSE idx

list_ns_lower_bound(s, key) == list_lb_loop(s, s.head, 0, key)

\* ns_insert_at linking the new node after entry idx instead of before it
list_ns_insert_at_after(s, idx, key, val) ==
    IF ~s.ok THEN s
    ELSE IF ~(idx >= 0 /\ idx <= s.n) THEN Abort(s)
    ELSE IF ~(s.n < s.cap) THEN Abort(s)
    ELSE LET nw == node_new(s, key, val)
             nn == nw.addr
             s1 == nw.s
         IN  IF s.n = 0
             THEN [s1 EXCEPT !.head = nn, !.n = 1]
             ELSE LET prev == list_at(s1, IF idx < s.n THEN idx ELSE idx - 1)
                  IN  [s1 EXCEPT !.cells[nn].next = s1.cells[prev].next,
                                 !.cells[prev].next = nn,
                                 !.n = s.n + 1]

list_ns_insert_at(s, idx, key, val) ==
    IF ~s.ok THEN s
    ELSE IF ~(idx >= 0 /\ idx <= s.n) THEN Abort(s)
    ELSE IF ~(s.n < s.cap) THEN Abort(s)
    ELSE LET nw == node_new(s, key, val)
             nn == nw.addr
             s1 == nw.s
         IN  IF idx = 0
             THEN [s1 EXCEPT !.cells[nn].next = s.head, !.head = nn,
                             !.n = s.n + 1]
             ELSE LET prev == list_at(s1, idx - 1)
                  IN  [s1 EXCEPT !.cells[nn].next = s1.cells[prev].next,
                                 !.cells[prev].next = nn,
                                 !.n = s.n + 1]

list_ns_erase_at(s, idx) ==
    IF ~s.ok THEN s
    ELSE IF ~(idx >= 0 /\ idx < s.n) THEN Abort(s)
    ELSE IF idx = 0
    THEN LET del == s.head
         IN  [s EXCEPT !.head = s.cells[del].next, !.cells[del] = FreeCell,
                       !.n = s.n - 1]
    ELSE LET prev == list_at(s, idx - 1)
             del == s.cells[prev].next
         IN  [s EXCEPT !.cells[prev].next = s.cells[del].next,
                       !.cells[del] = FreeCell,
                       !.n = s.n - 1]

\* ns_split: the walk dereferences NULL on an empty left; the ListNodes
\* from cur on change owner, so right takes over the cells of left
list_ns_split(left, right) ==
    IF ~(right.n = 0) THEN SplitAbort(left, right)
    ELSE LET n == left.n
             mid == IF n \div 2 = 0 THEN 1 ELSE n \div 2
         IN  IF n = 0 THEN SplitWild(left, right)
             ELSE LET prev == list_walk(left, left.head, mid - 1)
                      cur == left.cells[prev].next
                      cut == [left.cells EXCEPT ![prev].next = 0]
                  IN  IF cur = 0 THEN SplitAbort(left, right)
                      ELSE SplitResult(
                               [left EXCEPT !.cells = cut, !.n = mid],
                               [right EXCEPT !.head = cur, !.n = n - mid,
                                             !.cells = cut],
                               left.cells[cur].key)

\* ---- nodestore_skip.c (the mirror): the arrays are authoritative, sl is
\* the skip list of the same keys, read here along its level 0
skiplist_create == <<>>

\* skiplist_insert: the key goes before the first key not below it, unless
\* that key is equal
RECURSIVE sl_find(_, _, _)
sl_find(L, key, p) ==
    IF p < Len(L) /\ L[p + 1] < key THEN sl_find(L, key, p + 1) ELSE p

skiplist_insert(L, key) ==
    LET p == sl_find(L, key, 0)
    IN  IF p < Len(L) /\ L[p + 1] = key THEN L
        ELSE SubSeq(L, 1, p) \o <<key>> \o SubSeq(L, p + 1, Len(L))

make_list(cap) == skiplist_create

skip_ns_create(capacity) ==
    LET c == IF capacity <= 0 THEN 1 ELSE capacity
    IN  [kind |-> NODESTORE_SKIPLIST, ok |-> TRUE, cap |-> c, n |-> 0,
         keys |-> [i \in 0..(c - 1) |-> Junk],
         vals |-> [i \in 0..(c - 1) |-> Junk],
         sl |-> make_list(c)]

skip_ns_clear(s) == [s EXCEPT !.n = 0, !.sl = make_list(s.cap)]

skip_ns_lower_bound(s, key) == array_lb_loop(s, key, 0, s.n)

RECURSIVE rebuild_loop(_, _, _)
rebuild_loop(s, L, i) ==
    IF i < s.n THEN rebuild_loop(s, skiplist_insert(L, s.keys[i]), i + 1)
    ELSE L

\* rebuild_skiplist_from_keys doing nothing
rebuild_skiplist_stale(s) == s

rebuild_skiplist_from_keys(s) ==
    [s EXCEPT !.sl = rebuild_loop(s, make_list(s.cap), 0)]

\* ns_insert_at of the skip mirror without the test for a key already held
skip_ns_insert_at_no_dup_check(s, idx, key, val) ==
    IF ~s.ok THEN s
    ELSE IF ~(s.n < s.cap) THEN Abort(s)
    ELSE IF ~(idx >= 0 /\ idx <= s.n) THEN Abort(s)
    ELSE rebuild_skiplist_from_keys(
             [shift_right(s, s.n, idx) EXCEPT
                 !.keys[idx] = key, !.vals[idx] = val, !.n = s.n + 1])

skip_ns_insert_at(s, idx, key, val) ==
    IF ~s.ok THEN s
    ELSE IF ~(s.n < s.cap) THEN Abort(s)
    ELSE IF ~(idx >= 0 /\ idx <= s.n) THEN Abort(s)
    ELSE LET lb == skip_ns_lower_bound(s, key)
         IN  IF lb < s.n /\ s.keys[lb] = key THEN s
             ELSE rebuild_skiplist_from_keys(
                      [shift_right(s, s.n, idx) EXCEPT
                          !.keys[idx] = key, !.vals[idx] = val,
                          !.n = s.n + 1])

\* ns_erase_at whose shift starts one slot late: entry idx + 1 goes instead
skip_ns_erase_at_late(s, idx) ==
    IF ~s.ok THEN s
    ELSE IF ~(idx >= 0 /\ idx < s.n) THEN Abort(s)
    ELSE rebuild_skiplist_from_keys(
             [shift_left(s, IF idx + 1 < s.n THEN idx + 1 ELSE idx)
                 EXCEPT !.n = s.n - 1])

skip_ns_erase_at(s, idx) ==
    IF ~s.ok THEN s
    ELSE IF ~(idx >= 0 /\ idx < s.n) THEN Abort(s)
    ELSE rebuild_skiplist_from_keys([shift_left(s, idx) EXCEPT !.n = s.n - 1])

\* ns_split: sep is read at keys[mid] before anything is checked, and the
\* copy is not bounded by the capacity of right
skip_ns_split(left, right) ==
    IF ~(right.n = 0) THEN SplitAbort(left, right)
    ELSE LET n == left.n
             mid == IF n \div 2 = 0 THEN 1 ELSE n \div 2
             move == n - mid
         IN  IF ~(mid < left.cap) THEN SplitWild(left, right)
             ELSE IF ~(move >= 1) THEN SplitAbort(left, right)
             ELSE IF move > right.cap THEN SplitWild(left, right)
             ELSE SplitResult(
                      rebuild_skiplist_from_keys([left EXCEPT !.n = mid]),
                      rebuild_skiplist_from_keys(
                          [split_copy(left, right, mid, move, 0)
                              EXCEPT !.n = move]),
                      left.keys[mid])

\* ---- nodestore.c: the dispatch through the ops table of the store's kind
ops_create(kind, capacity) ==
    CASE kind = NODESTORE_ARRAY -> array_ns_create(capacity)
      [] kind = NODESTORE_LINKED -> list_ns_create(capacity)
      [] kind = NODESTORE_SKIPLIST -> skip_ns_create(capacity)

ops_size(s) == s.n

ops_capacity(s) == s.cap

ops_key_at(s, idx) ==
    IF s.kind = NODESTORE_LINKED THEN s.cells[list_at(s, idx)].key
    ELSE s.keys[idx]

ops_val_at(s, idx) ==
    IF s.kind = NODESTORE_LINKED THEN s.cells[list_at(s, idx)].val
    ELSE s.vals[idx]

ops_clear(s) ==
    CASE s.kind = NODESTORE_ARRAY -> array_ns_clear(s)
      [] s.kind = NODESTORE_LINKED -> list_ns_clear(s)
      [] s.kind = NODESTORE_SKIPLIST -> skip_ns_clear(s)

ops_lower_bound(s, key) ==
    CASE s.kind = NODESTORE_ARRAY -> array_ns_lower_bound(s, key)
      [] s.kind = NODESTORE_LINKED -> list_ns_lower_bound(s, key)
      [] s.kind = NODESTORE_SKIPLIST -> skip_ns_lower_bound(s, key)

ops_insert_at(s, idx, key, val) ==
    CASE s.kind = NODESTORE_ARRAY -> array_ns_insert_at(s, idx, key, val)
      [] s.kind = NODESTORE_LINKED -> list_ns_insert_at(s, idx, key, val)
      [] s.kind = NODESTORE_SKIPLIST -> skip_ns_insert_at(s, idx, key, val)

ops_erase_at(s, idx) ==
    CASE s.kind = NODESTORE_ARRAY -> array_ns_erase_at(s, idx)
      [] s.kind = NODESTORE_LINKED -> list_ns_erase_at(s, idx)
      [] s.kind = NODESTORE_SKIPLIST -> skip_ns_erase_at(s, idx)

ops_split(left, right) ==
    CASE left.kind = NODESTORE_ARRAY -> array_ns_split(left, right)
      [] left.kind = NODESTORE_LINKED -> list_ns_split(left, right)
      [] left.kind = NODESTORE_SKIPLIST -> skip_ns_split(left, right)

\* nodestore_get_ops: the ops table of a kind, 0 for any other number
nodestore_get_ops(kind) == IF kind \in Kinds THEN kind ELSE 0

\* the (key, val) sequence a caller reads with size / key_at / val_at
AbsSeq(s) ==
    [i \in 1..ops_size(s) |->
        Entry(ops_key_at(s, i - 1), ops_val_at(s, i - 1))]

\* the store of the given kind and capacity that reads as the sequence es,
\* its ListNodes in list order and its unused slots unwritten
Conc(kind, capacity, es) ==
    LET n == Len(es)
        arr == [kind |-> kind, ok |-> TRUE, cap |-> capacity, n |-> n,
                keys |-> [i \in 0..(capacity - 1) |->
                             IF i < n THEN es[i + 1].key ELSE Junk],
                vals |-> [i \in 0..(capacity - 1) |->
                             IF i < n THEN es[i + 1].val ELSE Junk]]
    IN  CASE kind = NODESTORE_ARRAY -> arr
          [] kind = NODESTORE_SKIPLIST ->
                 [kind |-> kind, ok |-> TRUE, cap |-> capacity, n |-> n,
                  keys |-> arr.keys, vals |-> arr.vals,
                  sl |-> rebuild_loop(arr, make_list(capacity), 0)]
          [] kind = NODESTORE_LINKED ->
                 [kind |-> kind, ok |-> TRUE, cap |-> capacity, n |-> n,
                  head |-> IF n > 0 THEN 1 ELSE 0,
                  cells |-> [a \in 1..capacity |->
                               IF a <= n
                               THEN [used |-> TRUE, key |-> es[a].key,
                                     val |-> es[a].val,
                                     next |-> IF a < n THEN a + 1 ELSE 0]
                               ELSE FreeCell]]

\* Which address a ListNode has and what a slot at or after n holds cannot
\* be read through the ops: after a call the store is put in the layout of
\* Conc, the skip list kept as it is.
NsCanon(s) ==
    IF ~s.ok THEN s
    ELSE LET c == Conc(s.kind, s.cap, AbsSeq(s))
         IN  IF s.kind = NODESTORE_SKIPLIST THEN [c EXCEPT !.sl = s.sl] ELSE c

\* the store of node x: size / key_at / val_at / lower_bound through t->ops
size(T, x) == ns_size(T.nodes[x].store)
key_at(T, x, idx) == ns_key_at(T.nodes[x].store, idx)
val_at(T, x, idx) == ns_val_at(T.nodes[x].store, idx)

\* In a tree node the store of any backend is held as the sequence of its
\* entries.  On that sequence the backends differ in two places: the list
\* finds a lower bound by a scan from the head, and the skip mirror leaves
\* the store alone when insert_at is given a key its lower bound finds.
RECURSIVE list_scan(_, _, _)
list_scan(s, key, idx) ==
    IF idx < Len(s) /\ ~(s[idx + 1].key >= key) THEN list_scan(s, key, idx + 1)
    ELSE idx

\* the scan of the list breaking on > instead of >=
list_scan_gt(s, key) ==
    Cardinality({i \in 1..Len(s) : \A j \in 1..i : s[j].key <= key})

list_lower_bound(s, key) == list_scan(s, key, 0)

skip_has_key(s, key) ==
    LET lb == ns_lower_bound(s, key)
    IN  lb < Len(s) /\ s[lb + 1].key = key

lower_bound(T, x, key) ==
    IF T.ops = NODESTORE_LINKED THEN list_lower_bound(T.nodes[x].store, key)
    ELSE ns_lower_bound(T.nodes[x].store, key)

\* ns_insert_at on the store of node x; cap is max_keys + 1 (node_create)
ns_insert_at(T, x, idx, key, val) ==
    LET s == T.nodes[x].store
        n == Len(s)
    IN  IF T.fault THEN T
        ELSE IF ~(idx >= 0 /\ idx <= n) \/ ~(n < T.nodes[x].max_keys + 1)
        THEN Fault(T)
        ELSE IF T.ops = NODESTORE_SKIPLIST /\ skip_has_key(s, key) THEN T
        ELSE LET s2 == SubSeq(s, 1, idx) \o <<Entry(key, val)>>
                           \o SubSeq(s, idx + 1, n)
             IN  [T EXCEPT !.nodes[x].store = s2,
                           !.peak = Max(T.peak, n + 1),
                           !.asc = T.asc /\ KeysAscending(s2),
                           !.lb = /\ T.lb
                                  /\ idx = lower_bound(T, x, key)
                                  /\ \A i \in 1..n : s[i].key /= key]

ns_erase_at(T, x, idx) ==
    LET s == T.nodes[x].store
        n == Len(s)
    IN  IF T.fault THEN T
        ELSE IF ~(idx >= 0 /\ idx < n) THEN Fault(T)
        ELSE LET s2 == SubSeq(s, 1, idx) \o SubSeq(s, idx + 2, n)
             IN  [T EXCEPT !.nodes[x].store = s2,
                           !.asc = T.asc /\ KeysAscending(s2)]

ns_clear(T, x) == IF T.fault THEN T ELSE [T EXCEPT !.nodes[x].store = <<>>]

\* --------------------------------------------------------------- tree nodes
FreeNode == [live |-> FALSE, is_leaf |-> FALSE, max_keys |-> 0,
             parent |-> NULL, next |-> NULL, child0 |-> NULL, store |-> <<>>]

\* malloc: the lowest free address
NewAddr(T) == CHOOSE a \in Addr :
                 /\ ~T.nodes[a].live
                 /\ \A b \in Addr : ~T.nodes[b].live => a <= b

HasFree(T) == \E a \in Addr : ~T.nodes[a].live

\* node_create: the new node is at NewAddr(T) of the tree before the call
\* node_create giving the node, and so its store, room for one key less
node_create_tight(T, is_leaf) ==
    IF T.fault THEN T
    ELSE IF ~HasFree(T) THEN Fault(T)
    ELSE [T EXCEPT !.nodes[NewAddr(T)] =
             [live |-> TRUE, is_leaf |-> is_leaf, max_keys |-> T.max_keys - 1,
              parent |-> NULL, next |-> NULL, child0 |-> NULL, store |-> <<>>]]

node_create(T, is_leaf) ==
    IF T.fault THEN T
    ELSE IF ~HasFree(T) THEN Fault(T)
    ELSE [T EXCEPT !.nodes[NewAddr(T)] =
             [live |-> TRUE, is_leaf |-> is_leaf, max_keys |-> T.max_keys,
              parent |-> NULL, next |-> NULL, child0 |-> NULL, store |-> <<>>]]

\* node_destroy that forgets to free the node
node_destroy_leak(T, x) == T

node_destroy(T, x) ==
    IF T.fault \/ x = NULL THEN T
    ELSE [T EXCEPT !.nodes[x] = FreeNode, !.freed = T.freed + 1]

node_keys(T, x) == size(T, x)

\* node_overflow with an off-by-one: the split is one key late
node_overflow_late(T, x) == node_keys(T, x) > T.nodes[x].max_keys + 1

node_overflow(T, x) == node_keys(T, x) > T.nodes[x].max_keys

\* min_leaf_keys rounded down instead of up
min_leaf_keys_floor(T) == T.max_keys \div 2

min_leaf_keys(T) == (T.max_keys + 1) \div 2

min_internal_keys(T) ==
    LET min_children == (T.order_M + 1) \div 2
    IN  min_children - 1

\* the assignment to c->parent left out: a moved child keeps its old parent
SetParent_keep(T, c, v) == T

\* p->parent = v unless p is NULL ("if (c) c->parent = x")
SetParent(T, c, v) ==
    IF T.fault \/ c = NULL THEN T ELSE [T EXCEPT !.nodes[c].parent = v]

\* ------------------------------------------------- full tree: node helpers
\* store_set_key putting the new key back at the front of the store
store_set_key_front(T, x, idx, new_key) ==
    LET n == size(T, x)
    IN  IF T.fault \/ idx < 0 \/ idx >= n THEN T
        ELSE LET v == val_at(T, x, idx)
             IN  ns_insert_at(ns_erase_at(T, x, idx), x, 0, new_key, v)

store_set_key(T, x, idx, new_key) ==
    LET n == size(T, x)
    IN  IF T.fault \/ idx < 0 \/ idx >= n THEN T
        ELSE LET v == val_at(T, x, idx)
             IN  ns_insert_at(ns_erase_at(T, x, idx), x, idx, new_key, v)

parent_child_at(T, parent, child_index) ==
    IF child_index = 0 THEN T.nodes[parent].child0
    ELSE val_at(T, parent, child_index - 1)

RECURSIVE pci_loop(_, _, _, _)
pci_loop(T, parent, child, i) ==
    IF i < size(T, parent)
    THEN IF val_at(T, parent, i) = child THEN i + 1
         ELSE pci_loop(T, parent, child, i + 1)
    ELSE -1

parent_child_index(T, parent, child) ==
    IF T.nodes[parent].child0 = child THEN 0
    ELSE pci_loop(T, parent, child, 0)

\* "while (cur && !cur->is_leaf) cur = cur->child0"
RECURSIVE first_leaf(_, _)
first_leaf(T, x) ==
    IF x /= NULL /\ ~T.nodes[x].is_leaf THEN first_leaf(T, T.nodes[x].child0)
    ELSE x

\* the two asserts of subtree_first_key
subtree_first_ok(T, x) ==
    LET cur == first_leaf(T, x)
    IN  cur /= NULL /\ size(T, cur) > 0

\* subtree_first_key reading the last key of the first leaf
subtree_first_key_last(T, x) ==
    key_at(T, first_leaf(T, x), size(T, first_leaf(T, x)) - 1)

subtree_first_key(T, x) == key_at(T, first_leaf(T, x), 0)

update_parent_sep_if_needed(T, x) ==
    IF T.fault \/ x = NULL THEN T
    ELSE IF T.nodes[x].parent = NULL THEN T
    ELSE IF T.nodes[x].is_leaf /\ size(T, x) <= 0 THEN T
    ELSE IF ~T.nodes[x].is_leaf /\ ~subtree_first_ok(T, x) THEN Fault(T)
    ELSE LET nmin == IF T.nodes[x].is_leaf THEN key_at(T, x, 0)
                     ELSE subtree_first_key(T, x)
             p == T.nodes[x].parent
             idx == parent_child_index(T, p, x)
         IN  IF idx > 0 THEN store_set_key(T, p, idx - 1, nmin) ELSE T

\* ---------------------------------------------- full tree: search helpers
RECURSIVE find_leaf_from(_, _, _)
find_leaf_from(T, x, key) ==
    IF x /= NULL /\ ~T.nodes[x].is_leaf
    THEN LET n == size(T, x)
             idx0 == lower_bound(T, x, key)
             idx == IF idx0 < n /\ key_at(T, x, idx0) = key
                    THEN idx0 + 1 ELSE idx0
         IN  IF idx = 0 THEN find_leaf_from(T, T.nodes[x].child0, key)
             ELSE find_leaf_from(T, val_at(T, x, idx - 1), key)
    ELSE x

\* find_leaf without the step to the right on a key equal to a separator
RECURSIVE find_leaf_no_shift_from(_, _, _)
find_leaf_no_shift_from(T, x, key) ==
    IF x /= NULL /\ ~T.nodes[x].is_leaf
    THEN LET idx == lower_bound(T, x, key)
         IN  IF idx = 0 THEN find_leaf_no_shift_from(T, T.nodes[x].child0, key)
             ELSE find_leaf_no_shift_from(T, val_at(T, x, idx - 1), key)
    ELSE x

find_leaf_no_shift(T, key) == find_leaf_no_shift_from(T, T.root, key)

find_leaf(T, key) == find_leaf_from(T, T.root, key)

\* leaf_find returns the found flag and *out_idx
leaf_find(T, leaf, key) ==
    LET n == size(T, leaf)
        idx == lower_bound(T, leaf, key)
    IN  [found |-> (idx < n /\ key_at(T, leaf, idx) = key), idx |-> idx]

\* ------------------------------ full tree: split / insert_into_parent
\* "for (i...) insert_at(store, base + i, es[i].key, es[i].val);
\*             if (c) c->parent = x"   (reparent only for internal nodes)
RECURSIVE insert_run(_, _, _, _, _, _)
insert_run(T, x, base, es, i, reparent) ==
    IF i >= Len(es) THEN T
    ELSE LET e == es[i + 1]
             T1 == ns_insert_at(T, x, base + i, e.key, e.val)
             T2 == IF reparent THEN SetParent(T1, e.val, x) ELSE T1
         IN  insert_run(T2, x, base, es, i + 1, reparent)

RECURSIVE insert_into_parent(_, _, _, _)
RECURSIVE split_internal(_, _)

\* split_leaf giving the left leaf floor(total/2) keys
split_leaf_floor(T, leaf) ==
    LET total == size(T, leaf)
        left_sz == total \div 2
        keys == T.nodes[leaf].store
        right == NewAddr(T)
        T1 == node_create(T, TRUE)
        T2 == [T1 EXCEPT !.nodes[right].parent = T.nodes[leaf].parent]
        T3 == ns_clear(ns_clear(T2, leaf), right)
        T4 == insert_run(T3, leaf, 0,
                         [i \in 1..left_sz |-> Entry(keys[i].key, NULL)],
                         0, FALSE)
        T5 == insert_run(T4, right, 0,
                         [i \in 1..(total - left_sz) |->
                              Entry(keys[left_sz + i].key, NULL)],
                         0, FALSE)
        T6 == [T5 EXCEPT !.nodes[right].next = T5.nodes[leaf].next,
                         !.nodes[leaf].next = right]
    IN  IF T.fault THEN T
        ELSE IF total /= T.max_keys + 1 THEN Fault(T)
        ELSE IF T1.fault THEN T1
        ELSE IF T5.fault THEN T5
        ELSE IF size(T6, right) = 0 THEN Fault(T6)
        ELSE insert_into_parent(T6, leaf, key_at(T6, right, 0), right)

split_leaf(T, leaf) ==
    LET total == size(T, leaf)
        left_sz == (total + 1) \div 2
        keys == T.nodes[leaf].store
        right == NewAddr(T)
        T1 == node_create(T, TRUE)
        T2 == [T1 EXCEPT !.nodes[right].parent = T.nodes[leaf].parent]
        T3 == ns_clear(ns_clear(T2, leaf), right)
        T4 == insert_run(T3, leaf, 0,
                         [i \in 1..left_sz |-> Entry(keys[i].key, NULL)],
                         0, FALSE)
        T5 == insert_run(T4, right, 0,
                         [i \in 1..(total - left_sz) |->
                              Entry(keys[left_sz + i].key, NULL)],
                         0, FALSE)
        T6 == [T5 EXCEPT !.nodes[right].next = T5.nodes[leaf].next,
                         !.nodes[leaf].next = right]
    IN  IF T.fault THEN T
        ELSE IF total /= T.max_keys + 1 THEN Fault(T)
        ELSE IF T1.fault THEN T1
        ELSE IF T5.fault THEN T5
        ELSE IF size(T6, right) = 0 THEN Fault(T6)
        ELSE insert_into_parent(T6, leaf, key_at(T6, right, 0), right)

\* split_internal leaving one child more in the left node
split_internal_left_heavy(T, x) ==
    LET k == size(T, x)
        es == T.nodes[x].store
        ch == [i \in 1..(k + 1) |->
                   IF i = 1 THEN T.nodes[x].child0 ELSE es[i - 1].val]
        nchildren == k + 1
        left_children == (nchildren + 1) \div 2 + 1
        left_keys == left_children - 1
        right == NewAddr(T)
        T1 == node_create(T, FALSE)
        T2 == [T1 EXCEPT !.nodes[right].parent = T.nodes[x].parent]
        T3 == ns_clear(T2, x)
        T4 == SetParent([T3 EXCEPT !.nodes[x].child0 = ch[1]], ch[1], x)
        T5 == insert_run(T4, x, 0, SubSeq(es, 1, left_keys), 0, TRUE)
        T6 == SetParent([T5 EXCEPT !.nodes[right].child0 =
                                       ch[left_children + 1]],
                        ch[left_children + 1], right)
        T7 == insert_run(T6, right, 0, SubSeq(es, left_children + 1, k),
                         0, TRUE)
    IN  IF T.fault THEN T
        ELSE IF k /= T.max_keys + 1 THEN Fault(T)
        ELSE IF T1.fault THEN T1
        ELSE IF T7.fault THEN T7
        ELSE IF ~subtree_first_ok(T7, right) THEN Fault(T7)
        ELSE insert_into_parent(T7, x, subtree_first_key(T7, right), right)

split_internal(T, x) ==
    LET k == size(T, x)
        es == T.nodes[x].store
        \* ch[0..k]: ch[0] = child0, ch[i+1] = val_at(i)
        ch == [i \in 1..(k + 1) |->
                   IF i = 1 THEN T.nodes[x].child0 ELSE es[i - 1].val]
        nchildren == k + 1
        left_children == (nchildren + 1) \div 2
        left_keys == left_children - 1
        right == NewAddr(T)
        T1 == node_create(T, FALSE)
        T2 == [T1 EXCEPT !.nodes[right].parent = T.nodes[x].parent]
        T3 == ns_clear(T2, x)
        T4 == SetParent([T3 EXCEPT !.nodes[x].child0 = ch[1]], ch[1], x)
        T5 == insert_run(T4, x, 0, SubSeq(es, 1, left_keys), 0, TRUE)
        T6 == SetParent([T5 EXCEPT !.nodes[right].child0 =
                                       ch[left_children + 1]],
                        ch[left_children + 1], right)
        T7 == insert_run(T6, right, 0, SubSeq(es, left_children + 1, k),
                         0, TRUE)
    IN  IF T.fault THEN T
        ELSE IF k /= T.max_keys + 1 THEN Fault(T)
        ELSE IF T1.fault THEN T1
        ELSE IF T7.fault THEN T7
        ELSE IF ~subtree_first_ok(T7, right) THEN Fault(T7)
        ELSE insert_into_parent(T7, x, subtree_first_key(T7, right), right)

\* insert_into_parent putting the new entry one place further right
insert_into_parent_after(T, left, sep_key, right) ==
    LET parent == T.nodes[left].parent
    IN  IF T.fault THEN T
        ELSE IF parent = NULL
        THEN LET root == NewAddr(T)
                 T1 == node_create(T, FALSE)
                 T2 == [T1 EXCEPT !.nodes[root].child0 = left,
                                  !.nodes[left].parent = root]
                 T3 == ns_insert_at(T2, root, 0, sep_key, right)
             IN  IF T1.fault THEN T1
                 ELSE IF T3.fault THEN T3
                 ELSE [T3 EXCEPT !.nodes[right].parent = root,
                                 !.root = root]
        ELSE LET j == parent_child_index(T, parent, left)
                 jj == IF j < size(T, parent) THEN j + 1 ELSE j
                 T1 == ns_insert_at(T, parent, jj, sep_key, right)
                 T2 == [T1 EXCEPT !.nodes[right].parent = parent]
             IN  IF j < 0 THEN Fault(T)
                 ELSE IF T1.fault THEN T1
                 ELSE IF node_overflow(T2, parent)
                      THEN split_internal(T2, parent)
                      ELSE T2

\* insert_into_parent whose new root is not made the parent of the left node
insert_into_parent_orphan(T, left, sep_key, right) ==
    LET parent == T.nodes[left].parent
    IN  IF T.fault THEN T
        ELSE IF parent = NULL
        THEN LET root == NewAddr(T)
                 T1 == node_create(T, FALSE)
                 T2 == [T1 EXCEPT !.nodes[root].child0 = left]
                 T3 == ns_insert_at(T2, root, 0, sep_key, right)
             IN  IF T1.fault THEN T1
                 ELSE IF T3.fault THEN T3
                 ELSE [T3 EXCEPT !.nodes[right].parent = root,
                                 !.root = root]
        ELSE LET j == parent_child_index(T, parent, left)
                 T1 == ns_insert_at(T, parent, j, sep_key, right)
                 T2 == [T1 EXCEPT !.nodes[right].parent = parent]
             IN  IF j < 0 THEN Fault(T)
                 ELSE IF T1.fault THEN T1
                 ELSE IF node_overflow(T2, parent)
                      THEN split_internal(T2, parent)
                      ELSE T2

insert_into_parent(T, left, sep_key, right) ==
    LET parent == T.nodes[left].parent
    IN  IF T.fault THEN T
        ELSE IF parent = NULL
        THEN LET root == NewAddr(T)
                 T1 == node_create(T, FALSE)
                 T2 == [T1 EXCEPT !.nodes[root].child0 = left,
                                  !.nodes[left].parent = root]
                 T3 == ns_insert_at(T2, root, 0, sep_key, right)
             IN  IF T1.fault THEN T1
                 ELSE IF T3.fault THEN T3
                 ELSE [T3 EXCEPT !.nodes[right].parent = root,
                                 !.root = root]
        ELSE LET j == parent_child_index(T, parent, left)
                 T1 == ns_insert_at(T, parent, j, sep_key, right)
                 T2 == [T1 EXCEPT !.nodes[right].parent = parent]
             IN  IF j < 0 THEN Fault(T)
                 ELSE IF T1.fault THEN T1
                 ELSE IF node_overflow(T2, parent)
                      THEN split_internal(T2, parent)
                      ELSE T2

\* ------------------------------ full tree: borrow / merge / rebalance
\* fix_root_after_delete that never shrinks the tree
fix_root_after_delete_stay(T) == T

\* fix_root_after_delete shrinking a root that still holds one key
RECURSIVE fix_root_after_delete_eager(_)
fix_root_after_delete_eager(T) ==
    IF T.fault THEN T
    ELSE IF T.root /= NULL /\ ~T.nodes[T.root].is_leaf /\ size(T, T.root) <= 1
    THEN LET old == T.root
             nr == T.nodes[old].child0
             T1 == SetParent(T, nr, NULL)
             T2 == [T1 EXCEPT !.root = nr]
         IN  fix_root_after_delete_eager(node_destroy(T2, old))
    ELSE T

RECURSIVE fix_root_after_delete(_)
fix_root_after_delete(T) ==
    IF T.fault THEN T
    ELSE IF T.root /= NULL /\ ~T.nodes[T.root].is_leaf /\ size(T, T.root) = 0
    THEN LET old == T.root
             nr == T.nodes[old].child0
             T1 == SetParent(T, nr, NULL)
             T2 == [T1 EXCEPT !.root = nr]
         IN  fix_root_after_delete(node_destroy(T2, old))
    ELSE T

\* the borrow functions return [r |-> the C return value, T |-> the tree]
\* borrow_from_left_leaf refusing whatever the left sibling holds
borrow_from_left_leaf_refuse(T, leaf, left, leaf_idx_in_parent) ==
    [r |-> 0, T |-> T]

borrow_from_left_leaf(T, leaf, left, leaf_idx_in_parent) ==
    LET ln == size(T, left)
        k == key_at(T, left, ln - 1)
        T1 == ns_erase_at(T, left, ln - 1)
        T2 == ns_insert_at(T1, leaf, 0, k, NULL)
        T3 == store_set_key(T2, T2.nodes[leaf].parent,
                            leaf_idx_in_parent - 1, key_at(T2, leaf, 0))
    IN  IF ln <= min_leaf_keys(T) THEN [r |-> 0, T |-> T]
        ELSE IF T2.fault THEN [r |-> 1, T |-> T2]
        ELSE [r |-> 1, T |-> T3]

\* borrow_from_right_leaf leaving the separator of the right sibling alone
borrow_from_right_leaf_keep_sep(T, leaf, right, leaf_idx_in_parent) ==
    LET rn == size(T, right)
        k == key_at(T, right, 0)
        T1 == ns_erase_at(T, right, 0)
        ln == size(T1, leaf)
        T2 == ns_insert_at(T1, leaf, ln, k, NULL)
    IN  IF rn <= min_leaf_keys(T) THEN [r |-> 0, T |-> T]
        ELSE [r |-> 1, T |-> T2]

borrow_from_right_leaf(T, leaf, right, leaf_idx_in_parent) ==
    LET rn == size(T, right)
        k == key_at(T, right, 0)
        T1 == ns_erase_at(T, right, 0)
        ln == size(T1, leaf)
        T2 == ns_insert_at(T1, leaf, ln, k, NULL)
        T3 == IF size(T2, right) > 0
              THEN store_set_key(T2, T2.nodes[leaf].parent,
                                 leaf_idx_in_parent, key_at(T2, right, 0))
              ELSE T2
    IN  IF rn <= min_leaf_keys(T) THEN [r |-> 0, T |-> T]
        ELSE IF T2.fault THEN [r |-> 1, T |-> T2]
        ELSE [r |-> 1, T |-> T3]

\* merge_leaf_into_left without the splice of left->next past the leaf
merge_leaf_into_left_no_splice(T, left, leaf, leaf_idx_in_parent) ==
    LET ln == size(T, left)
        T1 == insert_run(T, left, ln, T.nodes[leaf].store, 0, FALSE)
        T3 == ns_erase_at(T1, T1.nodes[left].parent, leaf_idx_in_parent - 1)
    IN  IF T.fault THEN T
        ELSE IF T1.fault THEN T1
        ELSE IF ~(leaf_idx_in_parent > 0) THEN Fault(T1)
        ELSE node_destroy(T3, leaf)

merge_leaf_into_left(T, left, leaf, leaf_idx_in_parent) ==
    LET ln == size(T, left)
        T1 == insert_run(T, left, ln, T.nodes[leaf].store, 0, FALSE)
        T2 == [T1 EXCEPT !.nodes[left].next = T1.nodes[leaf].next]
        T3 == ns_erase_at(T2, T2.nodes[left].parent, leaf_idx_in_parent - 1)
    IN  IF T.fault THEN T
        ELSE IF T1.fault THEN T1
        ELSE IF ~(leaf_idx_in_parent > 0) THEN Fault(T2)
        ELSE node_destroy(T3, leaf)

\* merge_right_leaf_into_leaf without the node_destroy of the right leaf
merge_right_leaf_into_leaf_leak(T, leaf, right, leaf_idx_in_parent) ==
    LET ln == size(T, leaf)
        T1 == insert_run(T, leaf, ln, T.nodes[right].store, 0, FALSE)
        T2 == [T1 EXCEPT !.nodes[leaf].next = T1.nodes[right].next]
        T3 == ns_erase_at(T2, T2.nodes[leaf].parent, leaf_idx_in_parent)
    IN  IF T.fault THEN T
        ELSE IF T1.fault THEN T1
        ELSE T3

merge_right_leaf_into_leaf(T, leaf, right, leaf_idx_in_parent) ==
    LET ln == size(T, leaf)
        T1 == insert_run(T, leaf, ln, T.nodes[right].store, 0, FALSE)
        T2 == [T1 EXCEPT !.nodes[leaf].next = T1.nodes[right].next]
        T3 == ns_erase_at(T2, T2.nodes[leaf].parent, leaf_idx_in_parent)
    IN  IF T.fault THEN T
        ELSE IF T1.fault THEN T1
        ELSE node_destroy(T3, right)

borrow_from_left_internal(T, x, left, x_idx_in_parent) ==
    LET lkeys == size(T, left)
        xp == T.nodes[x].parent
        parent_sep == key_at(T, xp, x_idx_in_parent - 1)
        borrow_child == val_at(T, left, lkeys - 1)
        borrow_child_min == subtree_first_key(T, borrow_child)
        T1 == ns_erase_at(T, left, lkeys - 1)
        old_c0 == T1.nodes[x].child0
        T2 == SetParent([T1 EXCEPT !.nodes[x].child0 = borrow_child],
                        borrow_child, x)
        T3 == SetParent(ns_insert_at(T2, x, 0, parent_sep, old_c0), old_c0, x)
        T4 == store_set_key(T3, xp, x_idx_in_parent - 1, borrow_child_min)
    IN  IF lkeys <= min_internal_keys(T) THEN [r |-> 0, T |-> T]
        ELSE IF ~(x_idx_in_parent - 1 >= 0 /\ x_idx_in_parent - 1 < size(T, xp))
             THEN [r |-> 1, T |-> Fault(T)]
        ELSE IF ~subtree_first_ok(T, borrow_child)
             THEN [r |-> 1, T |-> Fault(T)]
        ELSE [r |-> 1, T |-> T4]

borrow_from_right_internal(T, x, right, x_idx_in_parent) ==
    LET rkeys == size(T, right)
        xp == T.nodes[x].parent
        parent_sep == key_at(T, xp, x_idx_in_parent)
        borrow_child == T.nodes[right].child0
        new_c0 == val_at(T, right, 0)
        new_right_min == key_at(T, right, 0)
        T1 == ns_erase_at(T, right, 0)
        T2 == SetParent([T1 EXCEPT !.nodes[right].child0 = new_c0],
                        new_c0, right)
        xn == size(T2, x)
        T3 == SetParent(ns_insert_at(T2, x, xn, parent_sep, borrow_child),
                        borrow_child, x)
        T4 == store_set_key(T3, xp, x_idx_in_parent, new_right_min)
    IN  IF rkeys <= min_internal_keys(T) THEN [r |-> 0, T |-> T]
        ELSE IF ~(x_idx_in_parent >= 0 /\ x_idx_in_parent < size(T, xp))
             THEN [r |-> 1, T |-> Fault(T)]
        ELSE [r |-> 1, T |-> T4]

merge_internal_into_left(T, left, x, x_idx_in_parent) ==
    LET lp == T.nodes[left].parent
        sep == key_at(T, lp, x_idx_in_parent - 1)
        ln == size(T, left)
        xc0 == T.nodes[x].child0
        T1 == SetParent(ns_insert_at(T, left, ln, sep, xc0), xc0, left)
        T2 == insert_run(T1, left, ln + 1, T1.nodes[x].store, 0, TRUE)
        T3 == ns_erase_at(T2, lp, x_idx_in_parent - 1)
    IN  IF T.fault THEN T
        ELSE IF ~(x_idx_in_parent - 1 >= 0 /\ x_idx_in_parent - 1 < size(T, lp))
             THEN Fault(T)
        ELSE node_destroy(T3, x)

merge_right_internal_into_x(T, x, right, x_idx_in_parent) ==
    LET xp == T.nodes[x].parent
        sep == key_at(T, xp, x_idx_in_parent)
        xn == size(T, x)
        rc0 == T.nodes[right].child0
        T1 == SetParent(ns_insert_at(T, x, xn, sep, rc0), rc0, x)
        T2 == insert_run(T1, x, xn + 1, T1.nodes[right].store, 0, TRUE)
        T3 == ns_erase_at(T2, xp, x_idx_in_parent)
    IN  IF T.fault THEN T
        ELSE IF ~(x_idx_in_parent >= 0 /\ x_idx_in_parent < size(T, xp))
             THEN Fault(T)
        ELSE node_destroy(T3, right)

RECURSIVE rebalance_after_delete(_, _)
rebalance_after_delete(T, x) ==
    IF T.fault \/ x = NULL THEN T
    ELSE IF x = T.root THEN fix_root_after_delete(T)
    ELSE
    LET parent == T.nodes[x].parent
        x_idx == parent_child_index(T, parent, x)
        nkeys == size(T, x)
        left == IF x_idx > 0 THEN parent_child_at(T, parent, x_idx - 1)
                ELSE NULL
        right == IF x_idx < size(T, parent)
                 THEN parent_child_at(T, parent, x_idx + 1) ELSE NULL
    IN
    IF parent = NULL THEN Fault(T)
    ELSE IF x_idx < 0 THEN Fault(T)
    ELSE IF T.nodes[x].is_leaf
    THEN IF nkeys >= min_leaf_keys(T) THEN update_parent_sep_if_needed(T, x)
         ELSE LET bl == IF left /= NULL
                        THEN borrow_from_left_leaf(T, x, left, x_idx)
                        ELSE [r |-> 0, T |-> T]
                  br == IF right /= NULL
                        THEN borrow_from_right_leaf(T, x, right, x_idx)
                        ELSE [r |-> 0, T |-> T]
              IN  IF bl.r = 1 THEN bl.T
                  ELSE IF br.r = 1 THEN br.T
                  ELSE IF left /= NULL
                  THEN rebalance_after_delete(
                           merge_leaf_into_left(T, left, x, x_idx), parent)
                  ELSE IF right /= NULL
                  THEN rebalance_after_delete(
                           merge_right_leaf_into_leaf(T, x, right, x_idx),
                           parent)
                  ELSE T
    ELSE IF nkeys >= min_internal_keys(T)
         THEN update_parent_sep_if_needed(T, x)
         ELSE LET bl == IF left /= NULL
                        THEN borrow_from_left_internal(T, x, left, x_idx)
                        ELSE [r |-> 0, T |-> T]
                  br == IF right /= NULL
                        THEN borrow_from_right_internal(T, x, right, x_idx)
                        ELSE [r |-> 0, T |-> T]
              IN  IF bl.r = 1 THEN bl.T
                  ELSE IF br.r = 1 THEN br.T
                  ELSE IF left /= NULL
                  THEN rebalance_after_delete(
                           merge_internal_into_left(T, left, x, x_idx), parent)
                  ELSE IF right /= NULL
                  THEN rebalance_after_delete(
                           merge_right_internal_into_x(T, x, right, x_idx),
                           parent)
                  ELSE T

\* ------------------------------------------------- full tree: public API
\* bptree_create taking order_M as it is given
bptree_create_as_given(order_arg, ops) ==
    LET T0 == [order_M |-> order_arg, max_keys |-> order_arg - 1,
               root |-> NULL,
               ops |-> IF ops = NULL THEN NODESTORE_ARRAY ELSE ops,
               nodes |-> [a \in Addr |-> FreeNode],
               fault |-> FALSE, peak |-> 0, freed |-> 0, asc |-> TRUE,
               lb |-> TRUE]
    IN  [node_create(T0, TRUE) EXCEPT !.root = NewAddr(T0)]

\* bptree_create: a null ops is the array backend.  fault, peak, freed, asc
\* and lb are observers: a failed assert, the largest store size reached by
\* an insert_at, the number of node_destroy calls, whether every store
\* written was left strictly ascending and whether every insert_at was given
\* a new key and the index lower_bound answers for it, since the current
\* public call began
bptree_create(order_arg, ops) ==
    LET order_M == IF order_arg < 3 THEN 3 ELSE order_arg
        T0 == [order_M |-> order_M, max_keys |-> order_M - 1, root |-> NULL,
               ops |-> IF ops = NULL THEN NODESTORE_ARRAY ELSE ops,
               nodes |-> [a \in Addr |-> FreeNode],
               fault |-> FALSE, peak |-> 0, freed |-> 0, asc |-> TRUE,
               lb |-> TRUE]
    IN  [node_create(T0, TRUE) EXCEPT !.root = NewAddr(T0)]

bptree_search(T, key) ==
    IF T.root = NULL THEN 0
    ELSE LET leaf == find_leaf(T, key)
         IN  IF leaf = NULL THEN 0
             ELSE IF leaf_find(T, leaf, key).found THEN 1 ELSE 0

\* bptree_insert without the early return for a key already in the leaf
bptree_insert_no_dup_check(T, key) ==
    IF T.root = NULL THEN T
    ELSE LET leaf == find_leaf(T, key)
             lf == leaf_find(T, leaf, key)
             T1 == ns_insert_at(T, leaf, lf.idx, key, NULL)
             T2 == IF node_overflow(T1, leaf) THEN split_leaf(T1, leaf) ELSE T1
         IN  IF leaf = NULL THEN Fault(T)
             ELSE IF T1.fault THEN T1
             ELSE update_parent_sep_if_needed(T2, leaf)

bptree_insert(T, key) ==
    IF T.root = NULL THEN T
    ELSE LET leaf == find_leaf(T, key)
             lf == leaf_find(T, leaf, key)
             T1 == ns_insert_at(T, leaf, lf.idx, key, NULL)
             T2 == IF node_overflow(T1, leaf) THEN split_leaf(T1, leaf) ELSE T1
         IN  IF leaf = NULL THEN Fault(T)
             ELSE IF lf.found THEN T
             ELSE IF T1.fault THEN T1
             ELSE update_parent_sep_if_needed(T2, leaf)

\* bptree_delete without the early return for a key not in the leaf
bptree_delete_no_absent_check(T, key) ==
    IF T.root = NULL THEN T
    ELSE LET leaf == find_leaf(T, key)
             lf == leaf_find(T, leaf, key)
             T1 == ns_erase_at(T, leaf, lf.idx)
         IN  IF leaf = NULL THEN T
             ELSE fix_root_after_delete(rebalance_after_delete(T1, leaf))

bptree_delete(T, key) ==
    IF T.root = NULL THEN T
    ELSE LET leaf == find_leaf(T, key)
             lf == leaf_find(T, leaf, key)
             T1 == ns_erase_at(T, leaf, lf.idx)
         IN  IF leaf = NULL THEN T
             ELSE IF ~lf.found THEN T
             ELSE fix_root_after_delete(rebalance_after_delete(T1, leaf))

RECURSIVE height_loop(_, _, _)
height_loop(T, x, h) ==
    IF x /= NULL /\ ~T.nodes[x].is_leaf
    THEN height_loop(T, T.nodes[x].child0, h + 1)
    ELSE h

\* bptree_height counting the root twice
bptree_height_root_twice(T) ==
    IF T.root = NULL THEN 0 ELSE height_loop(T, T.root, 2)

\* bptree_height with the count started at 0
bptree_height_from_zero(T) ==
    IF T.root = NULL THEN 0 ELSE height_loop(T, T.root, 0)

bptree_height(T) == IF T.root = NULL THEN 0 ELSE height_loop(T, T.root, 1)

\* ---------------------------------------------------- reading a tree shape
\* children of an internal node: child0, then the value slots in index order
Children(T, x) ==
    <<T.nodes[x].child0>> \o [i \in 1..size(T, x) |-> T.nodes[x].store[i].val]

StoreKeys(T, x) == {T.nodes[x].store[i].key : i \in 1..size(T, x)}

RECURSIVE SubtreeNodes(_, _)
SubtreeNodes(T, x) ==
    IF x = NULL THEN {}
    ELSE IF T.nodes[x].is_leaf THEN {x}
    ELSE {x} \cup UNION {SubtreeNodes(T, Children(T, x)[i]) :
                            i \in 1..(size(T, x) + 1)}

TreeNodes(T) == SubtreeNodes(T, T.root)

Leaves(T) == {x \in TreeNodes(T) : T.nodes[x].is_leaf}

Internals(T) == {x \in TreeNodes(T) : ~T.nodes[x].is_leaf}

\* keys stored in the leaves below x
SubtreeKeys(T, x) ==
    UNION {StoreKeys(T, y) : y \in {z \in SubtreeNodes(T, x) : T.nodes[z].is_leaf}}

SetMin(S) == CHOOSE m \in S : \A n \in S : m <= n

\* depths (root = 1) at which the leaves below x lie
RECURSIVE LeafDepths(_, _, _)
LeafDepths(T, x, d) ==
    IF x = NULL THEN {}
    ELSE IF T.nodes[x].is_leaf THEN {d}
    ELSE UNION {LeafDepths(T, Children(T, x)[i], d + 1) :
                   i \in 1..(size(T, x) + 1)}

\* the leaves met by following next from x, at most fuel of them
RECURSIVE ChainFrom(_, _, _)
ChainFrom(T, x, fuel) ==
    IF x = NULL \/ fuel = 0 THEN <<>>
    ELSE <<x>> \o ChainFrom(T, T.nodes[x].next, fuel - 1)

LeafChain(T) == ChainFrom(T, first_leaf(T, T.root), MaxNodes + 1)

RECURSIVE ConcatKeys(_, _, _)
ConcatKeys(T, chain, i) ==
    IF i > Len(chain) THEN <<>>
    ELSE [j \in 1..size(T, chain[i]) |-> T.nodes[chain[i]].store[j].key]
             \o ConcatKeys(T, chain, i + 1)

StrictlyAscending(ks) == \A i \in 1..(Len(ks) - 1) : ks[i] < ks[i + 1]

CeilDiv(a, b) == (a + b - 1) \div b

SetMax(S) == CHOOSE m \in S : \A n \in S : m >= n

\* number of nodes on the longest root-to-leaf path
TreeDepth(T) == SetMax(LeafDepths(T, T.root, 1))

\* the tree without the per-call observers
Core(T) == Begin(T)

\* ------------------------------------------------------ heap addresses
\* The code compares node pointers only for equality, so which address
\* malloc hands out does not matter.  After every public call the heap is
\* renumbered: the nodes of the tree in preorder (root = 1), then any live
\* node that is not in the tree, in address order.  A pointer to a freed
\* node is kept as a pointer to the first free address.
RECURSIVE Preorder(_, _)
RECURSIVE PreorderFrom(_, _, _)
Preorder(T, x) ==
    IF x = NULL THEN <<>>
    ELSE IF T.nodes[x].is_leaf THEN <<x>>
    ELSE <<x>> \o PreorderFrom(T, Children(T, x), 1)

PreorderFrom(T, cs, i) ==
    IF i > Len(cs) THEN <<>>
    ELSE Preorder(T, cs[i]) \o PreorderFrom(T, cs, i + 1)

RECURSIVE Dedup(_, _)
Dedup(q, i) ==
    IF i > Len(q) THEN <<>>
    ELSE IF \E j \in 1..(i - 1) : q[j] = q[i] THEN Dedup(q, i + 1)
    ELSE <<q[i]>> \o Dedup(q, i + 1)

RECURSIVE SortedSeq(_)
SortedSeq(S) ==
    IF S = {} THEN <<>>
    ELSE LET m == SetMin(S) IN <<m>> \o SortedSeq(S \ {m})

Canon(T) ==
    IF T.fault THEN T
    ELSE
    LET inTree == Dedup(Preorder(T, T.root), 1)
        treeSet == {inTree[i] : i \in 1..Len(inTree)}
        order == inTree \o
                 SortedSeq({a \in Addr : T.nodes[a].live} \ treeSet)
        n == Len(order)
        ren(a) == IF a = NULL THEN NULL
                  ELSE IF \E i \in 1..n : order[i] = a
                       THEN CHOOSE i \in 1..n : order[i] = a
                  ELSE IF n < MaxNodes THEN n + 1 ELSE MaxNodes
        move(nd) == [nd EXCEPT
                       !.parent = ren(nd.parent),
                       !.next = ren(nd.next),
                       !.child0 = ren(nd.child0),
                       !.store = IF nd.is_leaf THEN nd.store
                                 ELSE [i \in 1..Len(nd.store) |->
                                          Entry(nd.store[i].key,
                                                ren(nd.store[i].val))]]
    IN  [T EXCEPT !.root = ren(T.root),
                  !.nodes = [a \in Addr |->
                               IF a <= n THEN move(T.nodes[order[a]])
                               ELSE FreeNode]]


\* ------------------------------------------------- full tree: the machine
\* ref is the reference set; last records the last public call, whether its
\* key was in the reference set when the call was made, and what
\* bptree_search returned for that key just before the call
Init ==
    /\ \E m \in OrderArgs : t = bptree_create(m, NULL)
    /\ ref = {}
    /\ last = [op |-> "create", hit |-> FALSE, found |-> 0]
    /\ twin = <<>>
    /\ ns = <<>>
    /\ nsop = <<>>
    /\ drv = <<>>
    /\ sl = <<>>

Insert(k) ==
    /\ ~t.fault
    /\ t' = Canon(bptree_insert(Begin(t), k))
    /\ ref' = ref \cup {k}
    /\ last' = [op |-> "insert", hit |-> k \in ref,
                found |-> bptree_search(t, k)]
    /\ UNCHANGED <<twin, ns, nsop, drv, sl>>

Delete(k) ==
    /\ ~t.fault
    /\ t' = Canon(bptree_delete(Begin(t), k))
    /\ ref' = ref \ {k}
    /\ last' = [op |-> "delete", hit |-> k \in ref,
                found |-> bptree_search(t, k)]
    /\ UNCHANGED <<twin, ns, nsop, drv, sl>>

Next ==
    \/ \E k \in Keys : Insert(k)
    \/ \E k \in Keys : Delete(k)

Spec == Init /\ [][Next]_vars

\* ===================================================== claims, full tree
\* keys asked of bptree_search: every key of the model and one on each side
ProbeKeys == 0..(MaxKey + 1)

\* C1: after every sequence of bptree_insert / bptree_delete calls on the
\* full tree, bptree_search(k) returns 1 exactly when k is in the reference
\* set, for every key k.
C1_SearchTotality ==
    \A k \in ProbeKeys : (bptree_search(t, k) = 1) <=> (k \in ref)

\* a delete of a present key has acted on a tree of three levels and keys
\* are left to be found
C1_Witness ==
    /\ last.op = "delete" /\ last.hit
    /\ TreeDepth(t) >= 3
    /\ Cardinality(ref) >= 4

\* C3: bptree_insert(k) of a key k already in the set leaves the whole tree
\* state unchanged (nodes, stores, links and root).
C3_IdempotentInsert ==
    [][(last'.op = "insert" /\ last'.hit) => Core(t') = Core(t)]_vars

\* an insert of a present key has been made on a tree of at least two levels
C3_Witness ==
    /\ last.op = "insert" /\ last.hit
    /\ TreeDepth(t) >= 2

\* C5: bptree_delete(k) of a key k with bptree_search(k) = 0 leaves the
\* whole tree state unchanged.
C5_AbsentDeleteIdentity ==
    [][(last'.op = "delete" /\ last'.found = 0) => Core(t') = Core(t)]_vars

\* a delete of a key that search does not find has been made on a tree of
\* at least two levels
C5_Witness ==
    /\ last.op = "delete" /\ last.found = 0
    /\ TreeDepth(t) >= 2

\* C6: for every internal node and every store index i, the key at index i
\* equals the minimum key of the subtree rooted at child[i+1].
C6_SeparatorIsSubtreeMin ==
    \A x \in Internals(t) : \A i \in 1..size(t, x) :
        LET ks == SubtreeKeys(t, t.nodes[x].store[i].val)
        IN  ks /= {} /\ t.nodes[x].store[i].key = SetMin(ks)

\* C7: every non-root leaf holds at least ceil((M-1)/2) keys and every
\* non-root internal node at least ceil(M/2)-1 keys.
C7_MinOccupancy ==
    \A x \in TreeNodes(t) \ {t.root} :
        IF t.nodes[x].is_leaf
        THEN size(t, x) >= CeilDiv(t.order_M - 1, 2)
        ELSE size(t, x) >= CeilDiv(t.order_M, 2) - 1

\* a delete has merged nodes away, the root of a three-level tree among
\* them, and non-root nodes remain
C7_Witness ==
    /\ last.op = "delete" /\ last.hit
    /\ t.freed >= 3
    /\ TreeDepth(t) = 2
    /\ Cardinality(ref) >= 4
    /\ \E x \in Leaves(t) : size(t, x) = CeilDiv(t.order_M - 1, 2)

\* C8: after every public operation every node holds at most M-1 keys, and
\* during the operation no store held more than M entries.
C8_MaxOccupancy ==
    /\ \A x \in TreeNodes(t) : size(t, x) <= t.order_M - 1
    /\ t.peak <= t.order_M

\* a store was filled to M entries during the call and split
C8_Witness ==
    /\ last.op = "insert"
    /\ t.peak = t.order_M
    /\ TreeDepth(t) >= 3

\* C9: all leaves are at the same depth, and bptree_height equals the
\* number of nodes on every root-to-leaf path.
C9_EqualDepth ==
    LeafDepths(t, t.root, 1) = {bptree_height(t)}

C9_Witness ==
    /\ TreeDepth(t) >= 3
    /\ last.op = "delete" /\ last.hit

\* C10: following next from the leftmost leaf visits every leaf exactly
\* once and ends at null, and the concatenation of the leaves' keys is
\* strictly ascending and equals the reference set.
C10_LeafChain ==
    LET chain == LeafChain(t)
        ks == ConcatKeys(t, chain, 1)
    IN  /\ Len(chain) <= MaxNodes
        /\ \A i, j \in 1..Len(chain) : chain[i] = chain[j] => i = j
        /\ {chain[i] : i \in 1..Len(chain)} = Leaves(t)
        /\ StrictlyAscending(ks)
        /\ {ks[i] : i \in 1..Len(ks)} = ref

\* a merge has destroyed a leaf and at least three leaves are still chained
C10_Witness ==
    /\ last.op = "delete" /\ last.hit
    /\ t.freed >= 1
    /\ Cardinality(Leaves(t)) >= 3

\* ================================================= simple tree (S_ names)
\* src/code/bptree.c shares node_create, node_destroy, node_overflow,
\* leaf_find, bptree_create and bptree_height with the full tree, line for
\* line; what differs is modelled here.
RECURSIVE S_find_leaf_from(_, _, _)
S_find_leaf_from(T, x, key) ==
    IF x /= NULL /\ ~T.nodes[x].is_leaf
    THEN LET idx == lower_bound(T, x, key)
         IN  IF idx = 0 THEN S_find_leaf_from(T, T.nodes[x].child0, key)
             ELSE S_find_leaf_from(T, val_at(T, x, idx - 1), key)
    ELSE x

S_find_leaf(T, key) == S_find_leaf_from(T, T.root, key)

RECURSIVE S_insert_into_parent(_, _, _, _)
RECURSIVE S_split_internal(_, _)

S_split_leaf(T, leaf) ==
    LET total == size(T, leaf)
        left_sz == (total + 1) \div 2
        keys == T.nodes[leaf].store
        right == NewAddr(T)
        T1 == node_create(T, TRUE)
        T2 == [T1 EXCEPT !.nodes[right].parent = T.nodes[leaf].parent]
        T3 == ns_clear(ns_clear(T2, leaf), right)
        T4 == insert_run(T3, leaf, 0,
                         [i \in 1..left_sz |-> Entry(keys[i].key, NULL)],
                         0, FALSE)
        T5 == insert_run(T4, right, 0,
                         [i \in 1..(total - left_sz) |->
                              Entry(keys[left_sz + i].key, NULL)],
                         0, FALSE)
        T6 == [T5 EXCEPT !.nodes[right].next = T5.nodes[leaf].next,
                         !.nodes[leaf].next = right]
    IN  IF T.fault THEN T
        ELSE IF total /= T.max_keys + 1 THEN Fault(T)
        ELSE IF T1.fault THEN T1
        ELSE IF T5.fault THEN T5
        ELSE IF size(T6, right) = 0 THEN Fault(T6)
        ELSE S_insert_into_parent(T6, leaf, key_at(T6, right, 0), right)

\* move-up split: keys[mid] goes to the parent and stays in neither half
S_split_internal(T, x) ==
    LET k == size(T, x)
        es == T.nodes[x].store
        ch == [i \in 1..(k + 1) |->
                   IF i = 1 THEN T.nodes[x].child0 ELSE es[i - 1].val]
        mid == k \div 2
        up_key == es[mid + 1].key
        right == NewAddr(T)
        T1 == node_create(T, FALSE)
        T2 == [T1 EXCEPT !.nodes[right].parent = T.nodes[x].parent]
        T3 == ns_clear(T2, x)
        T4 == SetParent([T3 EXCEPT !.nodes[x].child0 = ch[1]], ch[1], x)
        T5 == insert_run(T4, x, 0, SubSeq(es, 1, mid), 0, TRUE)
        T6 == SetParent([T5 EXCEPT !.nodes[right].child0 = ch[mid + 2]],
                        ch[mid + 2], right)
        T7 == insert_run(T6, right, 0, SubSeq(es, mid + 2, k), 0, TRUE)
    IN  IF T.fault THEN T
        ELSE IF k /= T.max_keys + 1 THEN Fault(T)
        ELSE IF T1.fault THEN T1
        ELSE IF T7.fault THEN T7
        ELSE S_insert_into_parent(T7, x, up_key, right)

S_insert_into_parent(T, left, sep_key, right) ==
    LET parent == T.nodes[left].parent
    IN  IF T.fault THEN T
        ELSE IF parent = NULL
        THEN LET root == NewAddr(T)
                 T1 == node_create(T, FALSE)
                 T2 == [T1 EXCEPT !.nodes[root].child0 = left,
                                  !.nodes[left].parent = root]
                 T3 == ns_insert_at(T2, root, 0, sep_key, right)
             IN  IF T1.fault THEN T1
                 ELSE IF T3.fault THEN T3
                 ELSE [T3 EXCEPT !.nodes[right].parent = root,
                                 !.root = root]
        ELSE LET n == size(T, parent)
                 pos == parent_child_index(T, parent, left)
                 T1 == ns_insert_at(T, parent, pos, sep_key, right)
                 T2 == [T1 EXCEPT !.nodes[right].parent = parent]
             IN  IF ~(pos >= 0 /\ pos <= n) THEN Fault(T)
                 ELSE IF T1.fault THEN T1
                 ELSE IF node_overflow(T2, parent)
                      THEN S_split_internal(T2, parent)
                      ELSE T2

S_bptree_search(T, key) ==
    IF T.root = NULL THEN 0
    ELSE LET leaf == S_find_leaf(T, key)
         IN  IF leaf = NULL THEN 0
             ELSE IF leaf_find(T, leaf, key).found THEN 1 ELSE 0

S_bptree_insert(T, key) ==
    IF T.root = NULL THEN T
    ELSE LET leaf == S_find_leaf(T, key)
             lf == leaf_find(T, leaf, key)
             T1 == ns_insert_at(T, leaf, lf.idx, key, NULL)
         IN  IF leaf = NULL THEN Fault(T)
             ELSE IF lf.found THEN T
             ELSE IF T1.fault THEN T1
             ELSE IF node_overflow(T1, leaf) THEN S_split_leaf(T1, leaf)
             ELSE T1

\* the root-shrink loop of bptree_delete is fix_root_after_delete, verbatim
S_bptree_delete(T, key) ==
    IF T.root = NULL THEN T
    ELSE LET leaf == S_find_leaf(T, key)
             lf == leaf_find(T, leaf, key)
         IN  IF leaf = NULL THEN T
             ELSE IF ~lf.found THEN T
             ELSE fix_root_after_delete(ns_erase_at(T, leaf, lf.idx))

\* ------------------------------------------------ simple tree: the machine
\* A tree that stores a key twice can grow without end; an insert is taken
\* only while the tree has at most S_MaxLive nodes.
S_MaxLive == 4

Live(T) == {a \in Addr : T.nodes[a].live}

Stored(T) == LET L == Leaves(T)
             IN  Cardinality({<<x, i>> \in L \X (1..(T.max_keys + 1)) :
                                 i <= size(T, x)})

S_Insert(k) ==
    /\ ~t.fault
    /\ Cardinality(Live(t)) <= S_MaxLive
    /\ t' = Canon(S_bptree_insert(Begin(t), k))
    /\ ref' = ref \cup {k}
    /\ last' = [op |-> "insert", hit |-> k \in ref,
                found |-> S_bptree_search(t, k)]
    /\ UNCHANGED <<twin, ns, nsop, drv, sl>>

S_Delete(k) ==
    /\ ~t.fault
    /\ t' = Canon(S_bptree_delete(Begin(t), k))
    /\ ref' = ref \ {k}
    /\ last' = [op |-> "delete", hit |-> k \in ref,
                found |-> S_bptree_search(t, k)]
    /\ UNCHANGED <<twin, ns, nsop, drv, sl>>

S_Next ==
    \/ \E k \in Keys : S_Insert(k)
    \/ \E k \in Keys : S_Delete(k)

SpecSimple == Init /\ [][S_Next]_vars

S_NextIns == \E k \in Keys : S_Insert(k)

\* the simple tree under inserts only
SpecSimpleIns == Init /\ [][S_NextIns]_vars

\* =================================================== claims, simple tree
\* C2: after every sequence of bptree_insert / bptree_delete calls on the
\* simple tree, bptree_search(k) returns 1 exactly when k was inserted and
\* not deleted afterwards.
C2_SimpleSearchTotality ==
    \A k \in ProbeKeys : (S_bptree_search(t, k) = 1) <=> (k \in ref)

\* C4: after every sequence of bptree_insert calls on the simple tree no
\* key is stored more than once over all leaves, and the number of keys
\* stored in the leaves equals the number of distinct keys inserted.
C4_SimpleNoDuplicate ==
    /\ \A x, y \in Leaves(t) : \A i \in 1..size(t, x) : \A j \in 1..size(t, y) :
           t.nodes[x].store[i].key = t.nodes[y].store[j].key
               => (x = y /\ i = j)
    /\ Stored(t) = Cardinality(ref)

NoFault == ~t.fault

\* ============================================ claims, full tree (continued)
\* how many times the internal node p references n: as child0 and in the
\* value slots of its store
Refs(T, p, n) ==
    (IF T.nodes[p].child0 = n THEN 1 ELSE 0)
        + Cardinality({i \in 1..size(T, p) : T.nodes[p].store[i].val = n})

\* C11: the root has a null parent; every non-root node n has a parent p
\* that is an internal node referencing n exactly once (as child0 or in
\* exactly one value slot); every child referenced by an internal node p
\* has parent = p.
C11_ParentLinks ==
    /\ t.root \in Addr /\ t.nodes[t.root].parent = NULL
    /\ \A n \in Live(t) \ {t.root} :
           LET p == t.nodes[n].parent
           IN  /\ p \in Addr
               /\ t.nodes[p].live /\ ~t.nodes[p].is_leaf
               /\ Refs(t, p, n) = 1
    /\ \A p \in Live(t) : ~t.nodes[p].is_leaf =>
           \A i \in 1..(size(t, p) + 1) :
               LET c == Children(t, p)[i]
               IN  c \in Addr /\ t.nodes[c].live /\ t.nodes[c].parent = p

\* a delete has merged a leaf and an internal node away below a root that
\* stays, so children were moved between internal nodes
C11_Witness ==
    /\ last.op = "delete" /\ last.hit
    /\ t.freed >= 2
    /\ TreeDepth(t) >= 3

\* C12: the keys of every node store, leaf and internal, are strictly
\* ascending by index, after every public call and after every node-store
\* call made inside an insert or a delete (the erase and the insert of
\* store_set_key, the appends of merges and borrows).
C12_StoresAscending ==
    /\ \A x \in Live(t) : KeysAscending(t.nodes[x].store)
    /\ t.asc

\* a delete on a tree of three levels has written an entry into a store
\* that then held at least two
C12_Witness ==
    /\ last.op = "delete" /\ last.hit
    /\ t.peak >= 2
    /\ TreeDepth(t) >= 3

\* C13: whenever every inserted key has been deleted again (the reference
\* set is empty), the tree is a single empty leaf: the root is a leaf with
\* 0 keys, bptree_height returns 1 and no other node is allocated.
C13_EmptyAfterDeleteAll ==
    (ref = {}) =>
        /\ t.root \in Addr
        /\ t.nodes[t.root].live /\ t.nodes[t.root].is_leaf
        /\ size(t, t.root) = 0
        /\ bptree_height(t) = 1
        /\ Live(t) = {t.root}

\* the last key of the set has just been deleted
C13_Witness ==
    /\ last.op = "delete" /\ last.hit
    /\ ref = {}

\* C15: the root is non-null and is either a leaf or an internal node with
\* at least one key, so at least two children; bptree_height is at least 1
\* and is 1 for the empty tree.
C15_RootShape ==
    /\ t.root \in Addr /\ t.nodes[t.root].live
    /\ \/ t.nodes[t.root].is_leaf
       \/ /\ size(t, t.root) >= 1
          /\ \A i \in 1..(size(t, t.root) + 1) :
                 Children(t, t.root)[i] /= NULL
          /\ Cardinality({Children(t, t.root)[i] :
                             i \in 1..(size(t, t.root) + 1)}) >= 2
    /\ bptree_height(t) >= 1
    /\ (SubtreeKeys(t, t.root) = {}) => bptree_height(t) = 1

\* a delete has merged nodes away and left an internal root with one key
C15_Witness ==
    /\ last.op = "delete" /\ last.hit
    /\ t.freed >= 1
    /\ ~t.nodes[t.root].is_leaf
    /\ size(t, t.root) = 1

\* the full tree under inserts only
NextIns == \E k \in Keys : Insert(k)

SpecIns == Init /\ [][NextIns]_vars

RECURSIVE Pow(_, _)
Pow(b, e) == IF e = 0 THEN 1 ELSE b * Pow(b, e - 1)

\* ceil(log base b of n) for b >= 2, n >= 1: the least e with b^e >= n
RECURSIVE CeilLogFrom(_, _, _)
CeilLogFrom(b, n, e) == IF Pow(b, e) >= n THEN e ELSE CeilLogFrom(b, n, e + 1)

CeilLog(b, n) == CeilLogFrom(b, n, 0)

\* C16: after inserting N >= 1 distinct keys, and nothing else, into an
\* empty tree of order M, bptree_height <= ceil(log base ceil(M/2) of N)
\* + 1; put the other way, a height h >= 2 needs ceil(M/2)^(h-2) < N.
C16_HeightBound ==
    LET N == Cardinality(ref)
        b == CeilDiv(t.order_M, 2)
        h == bptree_height(t)
    IN  N >= 1 =>
            /\ h <= CeilLog(b, N) + 1
            /\ h >= 2 => Pow(b, h - 2) < N

\* an insert of a new key has been made into a tree that has three levels
C16_Witness ==
    /\ last.op = "insert" /\ ~last.hit
    /\ bptree_height(t) >= 3

\* ============================== the full tree over the three backends
\* The calls made on the tree over the array backend are made, one for
\* one, on a tree over the linked list and on a tree over the skip mirror.
TwinKinds == {NODESTORE_LINKED, NODESTORE_SKIPLIST}

InitTwin ==
    /\ \E m \in OrderArgs :
           /\ t = bptree_create(m, nodestore_get_ops(NODESTORE_ARRAY))
           /\ twin = [kd \in TwinKinds |->
                         bptree_create(m, nodestore_get_ops(kd))]
    /\ ref = {}
    /\ last = [op |-> "create", hit |-> FALSE, found |-> 0]
    /\ ns = <<>>
    /\ nsop = <<>>
    /\ drv = <<>>
    /\ sl = <<>>

TwinInsert(k) ==
    /\ ~t.fault
    /\ t' = Canon(bptree_insert(Begin(t), k))
    /\ twin' = [kd \in TwinKinds |->
                   Canon(bptree_insert(Begin(twin[kd]), k))]
    /\ ref' = ref \cup {k}
    /\ last' = [op |-> "insert", hit |-> k \in ref,
                found |-> bptree_search(t, k)]
    /\ UNCHANGED <<ns, nsop, drv, sl>>

TwinDelete(k) ==
    /\ ~t.fault
    /\ t' = Canon(bptree_delete(Begin(t), k))
    /\ twin' = [kd \in TwinKinds |->
                   Canon(bptree_delete(Begin(twin[kd]), k))]
    /\ ref' = ref \ {k}
    /\ last' = [op |-> "delete", hit |-> k \in ref,
                found |-> bptree_search(t, k)]
    /\ UNCHANGED <<ns, nsop, drv, sl>>

NextTwin ==
    \/ \E k \in Keys : TwinInsert(k)
    \/ \E k \in Keys : TwinDelete(k)

SpecTwin == InitTwin /\ [][NextTwin]_vars

\* the tree without its observers and without its ops pointer
Shape(T) == [Core(T) EXCEPT !.ops = NULL]

\* C17: after every step of every sequence of bptree_insert / bptree_delete
\* calls, the trees over the array, the linked list and the skip mirror
\* answer bptree_search alike for every key, have the same bptree_height
\* and the same shape: the same keys in corresponding nodes and the same
\* child structure.
C17_BackendsAgree ==
    \A kd \in DOMAIN twin :
        /\ Shape(twin[kd]) = Shape(t)
        /\ bptree_height(twin[kd]) = bptree_height(t)
        /\ \A k \in ProbeKeys : bptree_search(twin[kd], k) = bptree_search(t, k)

\* a delete has merged a leaf and an internal node away in the three trees
C17_Witness ==
    /\ DOMAIN twin = TwinKinds
    /\ last.op = "delete" /\ last.hit
    /\ \A kd \in TwinKinds :
           /\ twin[kd].ops = kd
           /\ twin[kd].freed >= 2
           /\ TreeDepth(twin[kd]) >= 3

\* ===================================================== a node store alone
\* One store of any backend and any capacity up to NsMaxCap, called as a
\* client of the ops table may call it: any index, any key, any value.
NsMaxCap == 3

NsKeys == 1..NsMaxCap
NsVals == {0, 1}
NsProbe == 0..(NsMaxCap + 1)
NsIdx == 0..NsMaxCap

\* the call just made: its arguments, its result, and the entries and
\* capacity of the store before it
NsCall(op, idx, key, val, res) ==
    [op |-> op, idx |-> idx, key |-> key, val |-> val, res |-> res,
     pre |-> AbsSeq(ns), cap |-> ops_capacity(ns)]

InitStore ==
    /\ \E kd \in Kinds, c \in 0..NsMaxCap : ns = ops_create(kd, c)
    /\ nsop = [op |-> "create", idx |-> 0, key |-> 0, val |-> 0, res |-> 0,
               pre |-> <<>>, cap |-> ops_capacity(ns)]
    /\ t = <<>>
    /\ ref = {}
    /\ last = <<>>
    /\ twin = <<>>
    /\ drv = <<>>
    /\ sl = <<>>

NsLowerBound(k) ==
    /\ ns.ok
    /\ nsop' = NsCall("lower_bound", 0, k, 0, ops_lower_bound(ns, k))
    /\ UNCHANGED <<ns, t, ref, last, twin, drv, sl>>

NsInsertAt(i, k, v) ==
    /\ ns.ok
    /\ ns' = NsCanon(ops_insert_at(ns, i, k, v))
    /\ nsop' = NsCall("insert_at", i, k, v, 0)
    /\ UNCHANGED <<t, ref, last, twin, drv, sl>>

NsEraseAt(i) ==
    /\ ns.ok
    /\ ns' = NsCanon(ops_erase_at(ns, i))
    /\ nsop' = NsCall("erase_at", i, 0, 0, 0)
    /\ UNCHANGED <<t, ref, last, twin, drv, sl>>

NsClear ==
    /\ ns.ok
    /\ ns' = NsCanon(ops_clear(ns))
    /\ nsop' = NsCall("clear", 0, 0, 0, 0)
    /\ UNCHANGED <<t, ref, last, twin, drv, sl>>

\* split into a fresh right store of capacity rc of the same backend; the
\* right store is kept with the call
NsSplit(rc) ==
    /\ ns.ok
    /\ LET sp == ops_split(ns, ops_create(ns.kind, rc))
       IN  /\ ns' = NsCanon(sp.left)
           /\ nsop' = NsCall("split", 0, 0, 0, sp.res)
                          @@ [right |-> sp.right, oob |-> sp.oob]
    /\ UNCHANGED <<t, ref, last, twin, drv, sl>>

NextStore ==
    \/ \E k \in NsProbe : NsLowerBound(k)
    \/ \E i \in NsIdx, k \in NsKeys, v \in NsVals : NsInsertAt(i, k, v)
    \/ \E i \in NsIdx : NsEraseAt(i)
    \/ NsClear
    \/ \E rc \in 0..NsMaxCap : NsSplit(rc)

SpecStore == InitStore /\ [][NextStore]_vars

\* ================================================== claims, node store
\* C18: on a store of any backend whose keys are strictly ascending,
\* lower_bound(s, k) returns the least index i with key_at(s, i) >= k, and
\* size(s) when there is none (0 for an empty store).
C18_LowerBound ==
    (nsop.op = "lower_bound" /\ KeysAscending(AbsSeq(ns))) =>
        LET s == AbsSeq(ns)
            r == nsop.res
        IN  /\ r \in 0..Len(s)
            /\ \A i \in 1..r : s[i].key < nsop.key
            /\ r < Len(s) => s[r + 1].key >= nsop.key

\* lower_bound has answered with an index inside a store of ascending keys
C18_Witness ==
    /\ nsop.op = "lower_bound"
    /\ KeysAscending(AbsSeq(ns))
    /\ ops_size(ns) >= 2
    /\ nsop.res > 0 /\ nsop.res < ops_size(ns)

\* the call insert_at(s, idx, key, val) was made with 0 <= idx <= size <
\* capacity on a store of entries pre
InsertInRange == nsop.idx <= Len(nsop.pre) /\ Len(nsop.pre) < nsop.cap

\* C19: for 0 <= i <= size < capacity and a key k that keeps the keys
\* strictly ascending, insert_at(s, i, k, v) on any backend raises the size
\* by 1, makes key_at(i) = k and val_at(i) = v, leaves entries 0..i-1 as
\* they were and moves every former entry j >= i to index j+1, key and
\* value intact.
C19_InsertAt ==
    LET pre == nsop.pre
        i == nsop.idx
        post == AbsSeq(ns)
    IN  ( /\ nsop.op = "insert_at"
          /\ InsertInRange
          /\ KeysAscending(pre)
          /\ (i = 0 \/ pre[i].key < nsop.key)
          /\ (i = Len(pre) \/ nsop.key < pre[i + 1].key) ) =>
            /\ ns.ok
            /\ Len(post) = Len(pre) + 1
            /\ post[i + 1] = Entry(nsop.key, nsop.val)
            /\ \A j \in 1..i : post[j] = pre[j]
            /\ \A j \in (i + 1)..Len(pre) : post[j + 1] = pre[j]

\* a key has gone between two entries of a store
C19_Witness ==
    /\ nsop.op = "insert_at" /\ ns.ok
    /\ nsop.idx > 0 /\ nsop.idx < Len(nsop.pre)
    /\ KeysAscending(AbsSeq(ns))
    /\ ops_size(ns) = Len(nsop.pre) + 1

\* erase_at(s, i) with 0 <= i < size leaves the entries before i, drops
\* entry i and moves the tail one index down
EraseRemovesEntry ==
    (nsop.op = "erase_at" /\ nsop.idx < Len(nsop.pre)) =>
        /\ ns.ok
        /\ AbsSeq(ns) = SubSeq(nsop.pre, 1, nsop.idx)
                            \o SubSeq(nsop.pre, nsop.idx + 2, Len(nsop.pre))
        /\ ops_capacity(ns) = nsop.cap

\* erase_at(s, i) right after insert_at(s, i, k, v) gives back the entries,
\* the size and the capacity the store had before the insert
EraseUndoesInsert ==
    LET back == ops_erase_at(ns, nsop.idx)
    IN  /\ back.ok
        /\ AbsSeq(back) = nsop.pre
        /\ ops_size(back) = Len(nsop.pre)
        /\ ops_capacity(back) = nsop.cap

SplitHalves ==
    LET pre == nsop.pre
        h == Len(pre) \div 2
    IN  /\ ns.ok /\ ~nsop.oob
        /\ AbsSeq(ns) = SubSeq(pre, 1, h)
        /\ AbsSeq(nsop.right) = SubSeq(pre, h + 1, Len(pre))
        /\ nsop.res = ops_key_at(nsop.right, 0)

\* C21, as stated: on all three backends, for a left store of size n >= 2
\* and an empty right store, split(left, right) leaves the first floor(n/2)
\* entries in left and the remaining n - floor(n/2) in right, in the same
\* order with their values, and returns key_at(right, 0).
C21_Split == (nsop.op = "split" /\ Len(nsop.pre) >= 2) => SplitHalves

\* C21, amended: the same for an empty right store whose capacity is at
\* least n - floor(n/2).
C21_SplitWithRoom ==
    ( /\ nsop.op = "split" /\ Len(nsop.pre) >= 2
      /\ ops_capacity(nsop.right)
            >= Len(nsop.pre) - Len(nsop.pre) \div 2 ) => SplitHalves

\* a list store of three entries has been split into one and two
C21_Witness ==
    /\ nsop.op = "split" /\ ns.ok
    /\ ns.kind = NODESTORE_LINKED
    /\ Len(nsop.pre) = 3
    /\ ops_size(ns) = 1 /\ ops_size(nsop.right) = 2

\* C22: split of a left store of size 1 into an empty right store ends, on
\* each backend, without a failed assert or an out-of-range access, and
\* left keeps at least one entry.
C22_SplitOfOne ==
    (nsop.op = "split" /\ Len(nsop.pre) = 1) =>
        ns.ok /\ ~nsop.oob /\ ops_size(ns) >= 1

\* the keys of the skip list of s are the keys of its array, as many
SkipMirrors(s) ==
    /\ Len(s.sl) = s.n
    /\ {s.sl[i] : i \in 1..Len(s.sl)} = {s.keys[i] : i \in 0..(s.n - 1)}

DistinctKeys(s) ==
    \A i, j \in 0..(s.n - 1) : i /= j => s.keys[i] /= s.keys[j]

Mutating == {"insert_at", "erase_at", "clear", "split"}

\* C23, as stated: after every mutating operation of the skip mirror
\* (insert_at, erase_at, clear, split on both stores) the keys of the
\* store's skip list are the set {keys[0..n-1]} and its size is n.
C23_SkipMirror ==
    (ns.kind = NODESTORE_SKIPLIST /\ ns.ok /\ nsop.op \in Mutating) =>
        /\ SkipMirrors(ns)
        /\ nsop.op = "split" => SkipMirrors(nsop.right)

\* C23, amended: the same for a store whose keys[0..n-1] are pairwise
\* distinct.
C23_SkipMirrorDistinct ==
    (ns.kind = NODESTORE_SKIPLIST /\ ns.ok /\ nsop.op \in Mutating) =>
        /\ DistinctKeys(ns) => SkipMirrors(ns)
        /\ (nsop.op = "split" /\ DistinctKeys(nsop.right)) =>
               SkipMirrors(nsop.right)

\* a skip store of three keys has been split
C23_Witness ==
    /\ ns.kind = NODESTORE_SKIPLIST /\ ns.ok
    /\ nsop.op = "split" /\ Len(nsop.pre) = 3
    /\ DistinctKeys(ns) /\ DistinctKeys(nsop.right)
    /\ Len(nsop.right.sl) = 2

\* ======================================= the full tree, orders below 3
\* A tree created with an order below 3 and a tree created with order 3
\* receive the same calls.  last also keeps the order given to
\* bptree_create and whether a delete has been made.
LowOrders == (-1)..2

InitLow ==
    /\ \E m \in LowOrders :
           /\ t = bptree_create(m, NULL)
           /\ last = [op |-> "create", hit |-> FALSE, found |-> 0,
                      order_M |-> m, dels |-> FALSE]
    /\ twin = <<bptree_create(3, NULL)>>
    /\ ref = {}
    /\ ns = <<>>
    /\ nsop = <<>>
    /\ drv = <<>>
    /\ sl = <<>>

LowInsert(k) ==
    /\ ~t.fault
    /\ t' = Canon(bptree_insert(Begin(t), k))
    /\ twin' = <<Canon(bptree_insert(Begin(twin[1]), k))>>
    /\ ref' = ref \cup {k}
    /\ last' = [last EXCEPT !.op = "insert", !.hit = k \in ref,
                            !.found = bptree_search(t, k)]
    /\ UNCHANGED <<ns, nsop, drv, sl>>

LowDelete(k) ==
    /\ ~t.fault
    /\ t' = Canon(bptree_delete(Begin(t), k))
    /\ twin' = <<Canon(bptree_delete(Begin(twin[1]), k))>>
    /\ ref' = ref \ {k}
    /\ last' = [last EXCEPT !.op = "delete", !.hit = k \in ref,
                            !.found = bptree_search(t, k), !.dels = TRUE]
    /\ UNCHANGED <<ns, nsop, drv, sl>>

NextLow ==
    \/ \E k \in Keys : LowInsert(k)
    \/ \E k \in Keys : LowDelete(k)

SpecLow == InitLow /\ [][NextLow]_vars

\* C24: a tree created with order_M < 3 (0 and negative values included)
\* behaves exactly as one created with order 3: max_keys is 2, every store
\* has capacity 3, and the first split happens on the third distinct insert.
C24_LowOrderIsThree ==
    /\ t = twin[1]
    /\ t.order_M = 3 /\ t.max_keys = 2
    /\ \A a \in Live(t) : t.nodes[a].max_keys + 1 = 3
    /\ ~last.dels => (bptree_height(t) = 1 <=> Cardinality(ref) <= 2)

\* the third distinct insert into a tree created with order -1 has split
\* the root leaf
C24_Witness ==
    /\ last.order_M = -1
    /\ last.op = "insert" /\ ~last.hit /\ ~last.dels
    /\ Cardinality(ref) = 3
    /\ bptree_height(t) = 2

\* ============================================ benchmark driver: the reader
\* read_int_file of the driver (src/code/bptree.h 322-428).  A long long is
\* four 16-bit limbs, least significant first, read as two's complement.
LLBase == 2 ^ 16

LLZero == <<0, 0, 0, 0>>

LLNegative(v) == v[4] >= LLBase \div 2

\* v * 10 + d, limb by limb; carry is what leaves the top limb
RECURSIVE ll_muladd(_, _, _, _)
ll_muladd(v, i, carry, acc) ==
    IF i > 4 THEN [v |-> acc, carry |-> carry]
    ELSE LET x == v[i] * 10 + carry
         IN  ll_muladd(v, i + 1, x \div LLBase, Append(acc, x % LLBase))

\* "val = val * 10 + (c - '0')" on 64 bits
MulAdd10(v, d) == ll_muladd(v, 1, d, <<>>).v

\* the sum does not fit a long long: signed overflow, undefined in C
Overflows(v, d) ==
    LET r == ll_muladd(v, 1, d, <<>>)
    IN  ~LLNegative(v) /\ (r.carry > 0 \/ LLNegative(r.v))

\* 0 - v on 64 bits
RECURSIVE ll_negate(_, _, _, _)
ll_negate(v, i, carry, acc) ==
    IF i > 4 THEN acc
    ELSE LET x == (LLBase - 1 - v[i]) + carry
         IN  ll_negate(v, i + 1, x \div LLBase, Append(acc, x % LLBase))

\* "(long long)sign * val"
SignTimes(sign, v) == IF sign = -1 THEN ll_negate(v, 1, 1, <<>>) ELSE v

\* "x < INT32_MIN || x > INT32_MAX" is false
InInt32(x) ==
    \/ x[4] = 0 /\ x[3] = 0 /\ x[2] < LLBase \div 2
    \/ x[4] = LLBase - 1 /\ x[3] = LLBase - 1 /\ x[2] >= LLBase \div 2

\* "(int)x" for x in range
ToInt(x) ==
    IF x[2] < LLBase \div 2 THEN x[2] * LLBase + x[1]
    ELSE (x[2] - LLBase) * LLBase + x[1]

\* characters are their codes: '\n' 10, '\r' 13, ' ' 32, '#' 35, '-' 45,
\* '0'..'9' 48..57
IsDigit(c) == c >= 48 /\ c <= 57

\* the end of a number: range check, then push_int (realloc does not fail)
end_number(d) ==
    LET x == SignTimes(d.sign, d.val)
    IN  IF ~InInt32(x)
        THEN [d EXCEPT !.pc = "returned", !.ret = 0, !.arr = <<>>]
        ELSE [d EXCEPT !.arr = Append(d.arr, ToInt(x))]

\* the body of "for (size_t i = 0; i < n; ++i)" for the character c
read_char(d, c) ==
    IF d.in_comment = 1
    THEN IF c = 10 \/ c = 13 THEN [d EXCEPT !.in_comment = 0] ELSE d
    ELSE IF d.in_num = 0 /\ c = 35 THEN [d EXCEPT !.in_comment = 1]
    ELSE IF d.in_num = 0
    THEN IF c = 45
         THEN [d EXCEPT !.in_num = 1, !.sign = -1, !.val = LLZero]
         ELSE IF IsDigit(c)
         THEN [d EXCEPT !.in_num = 1, !.sign = 1,
                        !.val = <<c - 48, 0, 0, 0>>]
         ELSE d
    ELSE IF IsDigit(c)
    THEN [d EXCEPT !.val = MulAdd10(d.val, c - 48),
                   !.ub = d.ub \/ Overflows(d.val, c - 48)]
    ELSE LET e == end_number(d)
         IN  IF e.pc = "returned" THEN e
             ELSE [e EXCEPT !.in_num = 0, !.sign = 1, !.val = LLZero,
                            !.in_comment = IF c = 35 THEN 1 ELSE 0]

\* "finalize last number if file ended while parsing", then return 1
read_eof(d) ==
    LET e == IF d.in_num = 1 THEN end_number(d) ELSE d
    IN  IF e.pc = "returned" THEN e
        ELSE [e EXCEPT !.pc = "returned", !.ret = 1]

\* ---- the files read: decimal tokens, one separator between two tokens
Tok(neg, digits) == [neg |-> neg, digits |-> digits]

Int32MaxDigits == <<2, 1, 4, 7, 4, 8, 3, 6, 4, 7>>
Int32MinDigits == <<2, 1, 4, 7, 4, 8, 3, 6, 4, 8>>

ReadTokens ==
    { Tok(FALSE, <<7>>), Tok(TRUE, <<4, 2>>), Tok(FALSE, <<0, 0, 9>>),
      Tok(FALSE, Int32MaxDigits), Tok(TRUE, Int32MinDigits),
      Tok(FALSE, Int32MinDigits),
      Tok(TRUE, <<2, 1, 4, 7, 4, 8, 3, 6, 4, 9>>),
      Tok(FALSE, <<9, 2, 2, 3, 3, 7, 2, 0, 3, 6, 8, 5, 4, 7, 7, 5, 8, 0, 7>>),
      Tok(FALSE,
          <<1, 8, 4, 4, 6, 7, 4, 4, 0, 7, 3, 7, 0, 9, 5, 5, 1, 6, 1, 7>>) }

MaxTokens == 2

TokChars(tok) ==
    (IF tok.neg THEN <<45>> ELSE <<>>)
        \o [i \in 1..Len(tok.digits) |-> 48 + tok.digits[i]]

RECURSIVE FileChars(_, _)
FileChars(toks, sep) ==
    IF toks = <<>> THEN <<>>
    ELSE IF Len(toks) = 1 THEN TokChars(toks[1])
    ELSE TokChars(toks[1]) \o <<sep>> \o FileChars(Tail(toks), sep)

TokenLists == UNION {[1..n -> ReadTokens] : n \in 1..MaxTokens}

\* ---- the mathematical value of a token
RECURSIVE Significant(_)
Significant(ds) ==
    IF Len(ds) > 1 /\ ds[1] = 0 THEN Significant(Tail(ds)) ELSE ds

RECURSIVE LexLeq(_, _)
LexLeq(a, b) ==
    IF a = <<>> THEN TRUE
    ELSE IF a[1] /= b[1] THEN a[1] < b[1]
    ELSE LexLeq(Tail(a), Tail(b))

\* the value of the token lies in [-2^31, 2^31 - 1]
TokInRange(tok) ==
    LET s == Significant(tok.digits)
    IN  \/ Len(s) < 10
        \/ /\ Len(s) = 10
           /\ LexLeq(s, IF tok.neg THEN Int32MinDigits ELSE Int32MaxDigits)

RECURSIVE Horner(_, _, _)
Horner(ds, sgn, v) ==
    IF ds = <<>> THEN v ELSE Horner(Tail(ds), sgn, v * 10 + sgn * ds[1])

\* the value of a token in range
TokValue(tok) == Horner(tok.digits, IF tok.neg THEN -1 ELSE 1, 0)

\* ---- the machine: fopen has succeeded; one character is read at a step
InitRead ==
    /\ \E toks \in TokenLists, sep \in {10, 32}, tail \in {<<>>, <<10>>} :
           drv = [pc |-> "read", toks |-> toks,
                  file |-> FileChars(toks, sep) \o tail, pos |-> 1,
                  in_num |-> 0, sign |-> 1, val |-> LLZero,
                  in_comment |-> 0, arr |-> <<>>, ub |-> FALSE,
                  ret |-> -1, exit |-> -1]
    /\ t = <<>>
    /\ ref = {}
    /\ last = <<>>
    /\ twin = <<>>
    /\ ns = <<>>
    /\ nsop = <<>>
    /\ sl = <<>>

ReadChar ==
    /\ drv.pc = "read" /\ drv.pos <= Len(drv.file)
    /\ drv' = [read_char(drv, drv.file[drv.pos]) EXCEPT !.pos = drv.pos + 1]
    /\ UNCHANGED <<t, ref, last, twin, ns, nsop, sl>>

\* the other outcome of the signed overflow: a build that traps on it
ReadCharTrap ==
    /\ drv.pc = "read" /\ drv.pos <= Len(drv.file)
    /\ drv.in_comment = 0 /\ drv.in_num = 1
    /\ IsDigit(drv.file[drv.pos])
    /\ Overflows(drv.val, drv.file[drv.pos] - 48)
    /\ drv' = [drv EXCEPT !.pc = "trap", !.ub = TRUE]
    /\ UNCHANGED <<t, ref, last, twin, ns, nsop, sl>>

ReadEof ==
    /\ drv.pc = "read" /\ drv.pos > Len(drv.file)
    /\ drv' = read_eof(drv)
    /\ UNCHANGED <<t, ref, last, twin, ns, nsop, sl>>

\* main: "if (!read_int_file(path_insert, &ins, &n_ins)) return 1;"
MainAfterRead ==
    /\ drv.pc = "returned"
    /\ drv' = IF drv.ret = 0 THEN [drv EXCEPT !.pc = "exit", !.exit = 1]
              ELSE [drv EXCEPT !.pc = "rounds"]
    /\ UNCHANGED <<t, ref, last, twin, ns, nsop, sl>>

NextRead == ReadChar \/ ReadCharTrap \/ ReadEof \/ MainAfterRead

SpecRead == InitRead /\ [][NextRead]_vars

\* C25: for every input file that contains a decimal token whose value is
\* outside [-2^31, 2^31 - 1], whatever its number of digits, read_int_file
\* returns 0 and the driver exits with code 1; no out-of-range value is
\* ever converted to an in-range key.
C25_OutOfRangeRejected ==
    /\ ( /\ drv.pc \in {"exit", "rounds", "trap"}
         /\ \E i \in 1..Len(drv.toks) : ~TokInRange(drv.toks[i]) ) =>
           drv.pc = "exit" /\ drv.ret = 0 /\ drv.exit = 1
    /\ \A i \in 1..Len(drv.arr) :
           TokInRange(drv.toks[i]) /\ drv.arr[i] = TokValue(drv.toks[i])

\* ======================================== benchmark driver: the rounds
\* main of the driver after the three files are read (src/code/bptree.h
\* 504-533): ins, qry and del are the arrays read, rows the CSV rows
\* written.  h_ins is the height the tree had when the insert loop of the
\* round ended; the driver does not compute it.
MaxBenchKey == 3
MaxFileLen == 2
MaxRounds == 2

BenchKeys == 1..MaxBenchKey

SeqsUpTo(S, n) == UNION {[1..k -> S] : k \in 0..n}

InitBench ==
    /\ \E m \in 3..MaxOrder, rounds \in 1..MaxRounds,
          ins \in SeqsUpTo(BenchKeys, MaxBenchKey),
          qry \in SeqsUpTo(BenchKeys, MaxFileLen),
          del \in SeqsUpTo(BenchKeys, MaxFileLen) :
           drv = [pc |-> "round", m |-> m, rounds |-> rounds,
                  ins |-> ins, qry |-> qry, del |-> del,
                  r |-> 1, i |-> 1, found |-> 0, h_ins |-> 0,
                  rows |-> <<>>, exit |-> -1]
    /\ t = <<>>
    /\ ref = {}
    /\ last = <<>>
    /\ twin = <<>>
    /\ ns = <<>>
    /\ nsop = <<>>
    /\ sl = <<>>

\* "for (int r = 1; r <= rounds; ++r) { BPTree *t = bptree_create(m, ops);"
\* and, after the last round, "return 0"
BenchRound ==
    /\ drv.pc = "round"
    /\ IF drv.r <= drv.rounds
       THEN /\ t' = bptree_create(drv.m, nodestore_get_ops(NODESTORE_ARRAY))
            /\ drv' = [drv EXCEPT !.pc = "insert", !.i = 1]
       ELSE /\ t' = t
            /\ drv' = [drv EXCEPT !.pc = "exit", !.exit = 0]
    /\ UNCHANGED <<ref, last, twin, ns, nsop, sl>>

\* "for (i = 0; i < n_ins; ++i) bptree_insert(t, ins[i]);" then "found = 0"
BenchInsert ==
    /\ drv.pc = "insert"
    /\ IF drv.i <= Len(drv.ins)
       THEN /\ t' = Canon(bptree_insert(Begin(t), drv.ins[drv.i]))
            /\ drv' = [drv EXCEPT !.i = drv.i + 1]
       ELSE /\ t' = t
            /\ drv' = [drv EXCEPT !.pc = "search", !.i = 1, !.found = 0,
                                  !.h_ins = bptree_height(t)]
    /\ UNCHANGED <<ref, last, twin, ns, nsop, sl>>

\* "for (i = 0; i < n_qry; ++i) found += bptree_search(t, qry[i]);"
BenchSearch ==
    /\ drv.pc = "search"
    /\ drv' = IF drv.i <= Len(drv.qry)
              THEN [drv EXCEPT !.i = drv.i + 1,
                       !.found = drv.found + bptree_search(t, drv.qry[drv.i])]
              ELSE [drv EXCEPT !.pc = "delete", !.i = 1]
    /\ UNCHANGED <<t, ref, last, twin, ns, nsop, sl>>

\* "for (i = 0; i < n_del; ++i) bptree_delete(t, del[i]);"
BenchDelete ==
    /\ drv.pc = "delete"
    /\ IF drv.i <= Len(drv.del)
       THEN /\ t' = Canon(bptree_delete(Begin(t), drv.del[drv.i]))
            /\ drv' = [drv EXCEPT !.i = drv.i + 1]
       ELSE /\ t' = t
            /\ drv' = [drv EXCEPT !.pc = "row"]
    /\ UNCHANGED <<ref, last, twin, ns, nsop, sl>>

\* "int h = bptree_height(t); fprintf(out, ...); bptree_destroy(t);"
BenchRow ==
    /\ drv.pc = "row"
    /\ drv' = [drv EXCEPT
                  !.rows = Append(drv.rows,
                               [round |-> drv.r, found_count |-> drv.found,
                                height_after_insert |-> bptree_height(t),
                                h_ins |-> drv.h_ins]),
                  !.r = drv.r + 1, !.pc = "round"]
    /\ t' = <<>>
    /\ UNCHANGED <<ref, last, twin, ns, nsop, sl>>

NextBench ==
    BenchRound \/ BenchInsert \/ BenchSearch \/ BenchDelete \/ BenchRow

SpecBench == InitBench /\ [][NextBench]_vars

\* C26: in each round the value written in the height_after_insert column
\* is the height of the tree after the insert phase of that round and
\* before any delete of that round, and found_count is the number of
\* search-file entries present in the tree after the insert phase.
C26_RowValues ==
    \A j \in 1..Len(drv.rows) :
        /\ drv.rows[j].height_after_insert = drv.rows[j].h_ins
        /\ drv.rows[j].found_count =
               Cardinality({i \in 1..Len(drv.qry) :
                               \E a \in 1..Len(drv.ins) :
                                   drv.ins[a] = drv.qry[i]})

\* ======================================== claims, full tree: the splits
\* The calls below are made on the tree as it stands, so a node keeps its
\* address and the node a split creates is at NewAddr of the tree before.
KeySeq(T, x) == [i \in 1..size(T, x) |-> T.nodes[x].store[i].key]

\* the separator the parent of c keeps for c, c not being child0
SepOf(T, c) ==
    key_at(T, T.nodes[c].parent,
           parent_child_index(T, T.nodes[c].parent, c) - 1)

\* bptree_insert(T, k) puts a new key into a leaf that holds max_keys keys
FillsLeaf(T, k) ==
    LET leaf == find_leaf(T, k)
    IN  /\ leaf /= NULL
        /\ ~leaf_find(T, leaf, k).found
        /\ size(T, leaf) = T.max_keys

LeafSplitOf(T, k) ==
    LET leaf == find_leaf(T, k)
        all == SortedSeq(StoreKeys(T, leaf) \cup {k})
        M == T.order_M
        h == (M + 1) \div 2
        right == NewAddr(T)
        T2 == bptree_insert(Begin(T), k)
        p == T2.nodes[right].parent
        j == parent_child_index(T2, p, right)
    IN  /\ ~T2.fault
        /\ T2.nodes[leaf].live /\ T2.nodes[leaf].is_leaf
        /\ KeySeq(T2, leaf) = SubSeq(all, 1, h)
        /\ T2.nodes[right].live /\ T2.nodes[right].is_leaf
        /\ KeySeq(T2, right) = SubSeq(all, h + 1, M)
        /\ T2.nodes[leaf].next = right
        /\ T2.nodes[right].next = T.nodes[leaf].next
        /\ p /= NULL /\ T2.nodes[leaf].parent /= NULL
        /\ IF j > 0
           THEN /\ T2.nodes[p].store[j] = Entry(all[h + 1], right)
                /\ parent_child_at(T2, p, j - 1) = leaf
           ELSE /\ j = 0
                /\ SepOf(T2, p) = all[h + 1]

\* order 3, inserts 10, 20, 30
LeafSplitExample ==
    LET T == bptree_insert(bptree_insert(bptree_insert(
                 bptree_create(3, NULL), 10), 20), 30)
        r == T.root
    IN  /\ ~T.nodes[r].is_leaf
        /\ T.nodes[r].store = <<Entry(30, T.nodes[r].store[1].val)>>
        /\ KeySeq(T, T.nodes[r].child0) = <<10, 20>>
        /\ KeySeq(T, T.nodes[r].store[1].val) = <<30>>
        /\ bptree_height(T) = 2

\* C27: when an insert makes a leaf hold M keys, the original leaf is left
\* with the ceil(M/2) smallest of them and a new leaf holds the other
\* floor(M/2); the new leaf follows the original in the leaf chain and has
\* the next the original had; the entry added to the parent is (first key
\* of the new leaf, new leaf).  For M = 3 and inserts 10, 20, 30 the leaves
\* are [10,20] and [30], the root separator is 30 and the height is 2.
C27_LeafSplit ==
    /\ \A k \in Keys : (~t.fault /\ FillsLeaf(t, k)) => LeafSplitOf(t, k)
    /\ LeafSplitExample

\* an insert has just split a leaf of a tree that now has three leaves or
\* more
C27_Witness ==
    /\ last.op = "insert" /\ ~last.hit
    /\ t.peak = t.order_M
    /\ Cardinality(Leaves(t)) >= 3
    /\ \E k \in Keys : FillsLeaf(t, k)

\* the separator kept above the subtree of c: that of c in its parent, or,
\* where c is child0, the one kept above the parent
RECURSIVE SepAbove(_, _)
SepAbove(T, c) ==
    IF parent_child_index(T, T.nodes[c].parent, c) > 0 THEN SepOf(T, c)
    ELSE SepAbove(T, T.nodes[c].parent)

\* bptree_insert(T, k) fills a leaf whose parent already holds max_keys keys
FillsInternal(T, k) ==
    /\ FillsLeaf(T, k)
    /\ T.nodes[find_leaf(T, k)].parent /= NULL
    /\ size(T, T.nodes[find_leaf(T, k)].parent) = T.max_keys

InternalSplitOf(T, k) ==
    LET leaf == find_leaf(T, k)
        x == T.nodes[leaf].parent
        newleaf == NewAddr(T)
        xr == NewAddr(node_create(T, TRUE))
        j == parent_child_index(T, x, leaf)
        C == Children(T, x)
        \* the M + 1 children x holds when it is split
        all == SubSeq(C, 1, j + 1) \o <<newleaf>> \o SubSeq(C, j + 2, Len(C))
        M == T.order_M
        lc == (M + 2) \div 2
        T2 == bptree_insert(Begin(T), k)
        p == T2.nodes[xr].parent
        jr == parent_child_index(T2, p, xr)
    IN  /\ ~T2.fault
        /\ Len(all) = M + 1
        /\ T2.nodes[x].live /\ ~T2.nodes[x].is_leaf
        /\ Children(T2, x) = SubSeq(all, 1, lc)
        /\ size(T2, x) = lc - 1
        /\ T2.nodes[xr].live /\ ~T2.nodes[xr].is_leaf
        /\ Children(T2, xr) = SubSeq(all, lc + 1, M + 1)
        /\ \A i \in 1..lc : T2.nodes[all[i]].parent = x
        /\ \A i \in (lc + 1)..(M + 1) : T2.nodes[all[i]].parent = xr
        /\ p /= NULL
        /\ jr > 0 => parent_child_at(T2, p, jr - 1) = x
        /\ SepAbove(T2, xr) = SetMin(SubtreeKeys(T2, xr))

FixUpStaysLocal(T, x) ==
    LET U == update_parent_sep_if_needed(Begin(T), x)
    IN  /\ ~U.fault
        /\ \A a \in Addr : a /= T.nodes[x].parent => U.nodes[a] = T.nodes[a]

\* C29: after every sequence of bptree_insert calls on an empty tree, every
\* internal separator at every level is the minimum key of the subtree to
\* its right, although the fix-up of an insert writes at most the
\* separator in the parent of the leaf and touches no further ancestor.
C29_InsertOnlySeparators ==
    /\ \A x \in Internals(t) : \A i \in 1..size(t, x) :
           /\ SubtreeKeys(t, t.nodes[x].store[i].val) /= {}
           /\ t.nodes[x].store[i].key =
                  SetMin(SubtreeKeys(t, t.nodes[x].store[i].val))
    /\ \A x \in Leaves(t) : FixUpStaysLocal(t, x)

\* an insert has split a node of a tree of three levels whose root keeps a
\* separator above an internal node
C29_Witness ==
    /\ last.op = "insert" /\ ~last.hit
    /\ t.peak = t.order_M
    /\ bptree_height(t) >= 3
    /\ size(t, t.root) >= 1
    /\ ~t.nodes[t.nodes[t.root].store[1].val].is_leaf

\* ============================== claims, full tree: the separator after a delete
\* bptree_delete(T, k) removes the minimum key of a leaf that is child j > 0
\* of its parent and leaves that leaf with fewer than min_leaf_keys keys
EmptiesNonFirstLeaf(T, k) ==
    LET x == find_leaf(T, k)
    IN  /\ x /= NULL
        /\ leaf_find(T, x, k).found
        /\ key_at(T, x, 0) = k
        /\ x /= T.root
        /\ parent_child_index(T, T.nodes[x].parent, x) > 0
        /\ size(T, x) - 1 < min_leaf_keys(T)

\* the leaf c is not child0 of its parent and the separator kept for it is
\* its first key
SepIsFirstKey(T, c) ==
    \/ c = T.root
    \/ parent_child_index(T, T.nodes[c].parent, c) = 0
    \/ /\ size(T, c) > 0
       /\ SepOf(T, c) = key_at(T, c, 0)

\* the leaf x after the delete when a borrow kept it, its left sibling when
\* merge_leaf_into_left emptied it into that sibling
SeparatorRefreshed(T, k) ==
    LET x == find_leaf(T, k)
        p == T.nodes[x].parent
        j == parent_child_index(T, p, x)
        left == parent_child_at(T, p, j - 1)
        D == bptree_delete(Begin(T), k)
    IN  /\ ~D.fault
        /\ IF D.nodes[x].live
               THEN /\ D.nodes[x].parent = p
                    /\ parent_child_index(D, p, x) = j
                    /\ key_at(D, p, j - 1) = key_at(D, x, 0)
               ELSE /\ D.nodes[left].live
                    /\ SepIsFirstKey(D, left)

\* C30: when a delete removes the minimum key of a leaf x that is child
\* j > 0 of its parent p and the underflow is resolved by a borrow from the
\* left or the right sibling or by a merge, then on return p.key[j-1] is the
\* new minimum key of x, or the separator of the node x was merged into is
\* the minimum of that node when that node is not child0.
C30_DeleteRefreshesSeparator ==
    \A k \in Keys : EmptiesNonFirstLeaf(t, k) => SeparatorRefreshed(t, k)

\* ================================= claims, full tree: borrow before merge
MinKeysOf(T, x) ==
    IF T.nodes[x].is_leaf THEN min_leaf_keys(T) ELSE min_internal_keys(T)

LeftSibling(T, x) ==
    LET p == T.nodes[x].parent
        j == parent_child_index(T, p, x)
    IN  IF j > 0 THEN parent_child_at(T, p, j - 1) ELSE NULL

RightSibling(T, x) ==
    LET p == T.nodes[x].parent
        j == parent_child_index(T, p, x)
    IN  IF j < size(T, p) THEN parent_child_at(T, p, j + 1) ELSE NULL

Underflows(T, x) == x /= T.root /\ size(T, x) < MinKeysOf(T, x)

CanLend(T, s) == s /= NULL /\ size(T, s) > MinKeysOf(T, s)

\* R is T after the last entry of the left sibling of x has moved to the
\* front of x: a key for a leaf, a child for an internal node
MovedFromLeft(T, R, x) ==
    LET left == LeftSibling(T, x)
        right == RightSibling(T, x)
        ln == size(T, left)
    IN  /\ R.freed = T.freed
        /\ size(R, left) = ln - 1
        /\ size(R, x) = size(T, x) + 1
        /\ \A i \in 1..(ln - 1) : R.nodes[left].store[i] = T.nodes[left].store[i]
        /\ right /= NULL => R.nodes[right] = T.nodes[right]
        /\ IF T.nodes[x].is_leaf
               THEN key_at(R, x, 0) = key_at(T, left, ln - 1)
               ELSE /\ R.nodes[x].child0 = val_at(T, left, ln - 1)
                    /\ val_at(R, x, 0) = T.nodes[x].child0

\* R is T after the first entry of the right sibling of x has moved to the
\* end of x
MovedFromRight(T, R, x) ==
    LET left == LeftSibling(T, x)
        right == RightSibling(T, x)
        rn == size(T, right)
        xn == size(T, x)
    IN  /\ R.freed = T.freed
        /\ size(R, right) = rn - 1
        /\ size(R, x) = xn + 1
        /\ \A i \in 1..(rn - 1) :
               R.nodes[right].store[i].val = T.nodes[right].store[i + 1].val
        /\ left /= NULL => R.nodes[left] = T.nodes[left]
        /\ IF T.nodes[x].is_leaf
               THEN key_at(R, x, xn) = key_at(T, right, 0)
               ELSE /\ val_at(R, x, xn) = T.nodes[right].child0
                    /\ R.nodes[right].child0 = val_at(T, right, 0)

\* T after the merge rebalance_after_delete makes for the node x
MergeOf(T, x) ==
    LET p == T.nodes[x].parent
        j == parent_child_index(T, p, x)
        left == LeftSibling(T, x)
        right == RightSibling(T, x)
    IN  IF T.nodes[x].is_leaf
        THEN IF left /= NULL THEN merge_leaf_into_left(T, left, x, j)
             ELSE merge_right_leaf_into_leaf(T, x, right, j)
        ELSE IF left /= NULL THEN merge_internal_into_left(T, left, x, j)
             ELSE merge_right_internal_into_x(T, x, right, j)

\* rebalance_after_delete(T, x) and every call it makes on an ancestor of x
\* borrow from the left sibling if it can lend, else from the right sibling
\* if it can lend, and destroy a node only when neither can
RECURSIVE BorrowFirst(_, _)
BorrowFirst(T, x) ==
    LET R == rebalance_after_delete(T, x)
    IN  /\ ~R.fault
        /\ IF x = T.root THEN TRUE
           ELSE IF ~Underflows(T, x) THEN R.freed = T.freed
           ELSE IF CanLend(T, LeftSibling(T, x)) THEN MovedFromLeft(T, R, x)
           ELSE IF CanLend(T, RightSibling(T, x)) THEN MovedFromRight(T, R, x)
           ELSE /\ MergeOf(T, x).freed = T.freed + 1
                /\ R.freed >= T.freed + 1
                /\ BorrowFirst(MergeOf(T, x), T.nodes[x].parent)

\* the tree bptree_delete(T, k) hands to rebalance_after_delete
Erased(T, k) ==
    LET leaf == find_leaf(T, k)
    IN  ns_erase_at(Begin(T), leaf, leaf_find(T, leaf, k).idx)

\* C31: borrow is tried before merge and the left sibling before the right:
\* when a delete makes a non-root node underflow and its left sibling has
\* more than the minimum, exactly one entry, its last, moves to the node and
\* no node is destroyed; otherwise, if the right sibling has more than the
\* minimum, its first entry moves; a delete destroys a node only when no
\* adjacent sibling of the underflowing node has more than the minimum.
C31_BorrowBeforeMerge ==
    \A k \in ref :
        LET x == find_leaf(t, k)
            E == Erased(t, k)
        IN  /\ BorrowFirst(E, x)
            /\ bptree_delete(Begin(t), k).freed > 0 =>
                   /\ Underflows(E, x)
                   /\ ~CanLend(E, LeftSibling(E, x))
                   /\ ~CanLend(E, RightSibling(E, x))

\* a delete can empty a leaf both of whose siblings can lend
C31_Witness ==
    \E k \in ref :
        LET x == find_leaf(t, k)
            E == Erased(t, k)
        IN  /\ Underflows(E, x)
            /\ CanLend(E, LeftSibling(E, x))
            /\ CanLend(E, RightSibling(E, x))
            /\ MovedFromLeft(E, bptree_delete(Begin(t), k), x)

\* ==================================== claims, full tree: the insert index
\* C32: every insert_at call the tree makes on a node store (leaf insert,
\* split re-insertion, parent insertion, store_set_key, borrows and merges)
\* passes the index lower_bound answers for the key on that store just
\* before the call, and a key that store does not hold; over the array,
\* the linked list and the skip mirror.
C32_InsertAtLowerBound ==
    /\ ~t.fault => t.lb
    /\ \A kd \in DOMAIN twin : ~twin[kd].fault => twin[kd].lb

\* a delete has merged two internal nodes: it has written entries into the
\* stores of a leaf, of an internal node and, by store_set_key or by the
\* appends of the merge, of their parents
C32_Witness ==
    /\ last.op = "delete" /\ last.hit
    /\ t.lb
    /\ t.peak >= 2
    /\ t.freed >= 2
    /\ DOMAIN twin = TwinKinds
    /\ \A kd \in TwinKinds :
           twin[kd].ops = kd /\ twin[kd].lb /\ twin[kd].peak >= 2

\* ======================================= claims, full tree: termination
\* the node at which the parent links from x end, NULL if they have not
\* ended after fuel steps
RECURSIVE ChainTop(_, _, _)
ChainTop(T, x, fuel) ==
    IF T.nodes[x].parent = NULL THEN x
    ELSE IF fuel = 0 THEN NULL
    ELSE ChainTop(T, T.nodes[x].parent, fuel - 1)

\* the parent links from every live node end at the root, through live
\* internal nodes only and in fewer steps than the tree has levels
ParentChainsEnd(T) ==
    \A x \in Live(T) :
        /\ ChainTop(T, x, bptree_height(T) - 1) = T.root
        /\ T.nodes[x].parent /= NULL =>
               /\ T.nodes[T.nodes[x].parent].live
               /\ ~T.nodes[T.nodes[x].parent].is_leaf

\* C33: every bptree_insert and bptree_delete call on a reachable tree
\* terminates: the parent chain of every node is acyclic and ends at the
\* root, an insert splits at most one node per level on the way up (and
\* adds at most one new root), a delete destroys at most one node per level
\* on the way up, and the root-shrink loop runs at most once per delete.
C33_CallsTerminate ==
    /\ ~t.fault
    /\ ParentChainsEnd(t)
    /\ \A k \in Keys :
           LET I == bptree_insert(Begin(t), k)
               D == bptree_delete(Begin(t), k)
               h == bptree_height(t)
           IN  /\ ~I.fault /\ ~D.fault
               /\ ParentChainsEnd(I) /\ ParentChainsEnd(D)
               /\ Cardinality(Live(I)) - Cardinality(Live(t)) <= h + 1
               /\ bptree_height(I) > h =>
                      Cardinality(Live(I)) - Cardinality(Live(t)) = h + 1
               /\ D.freed <= h - 1 + (h - bptree_height(D))
               /\ h - bptree_height(D) \in {0, 1}

\* a delete has merged at every level of a tree of three levels and then
\* shrunk the root
C33_Witness ==
    /\ last.op = "delete" /\ last.hit
    /\ bptree_height(t) = 2
    /\ t.freed = 3
    /\ ParentChainsEnd(t)

\* ================================================= skip list (part_002)
\* The skip list of src/unnamed/part_002, in its two variants: variant 1
\* (bool results, keys only) and variant 2 (int results, a value per key,
\* an insert of a present key overwrites the value).  Nodes live at the
\* addresses 1..SLMaxNodes, the header at SLHeader; forward[i] of a node is
\* fwd[i + 1].  update[] starts uninitialised (SLJunk).
SLMaxKey == 3
SLMaxLevel == 3

SLKeys == 1..SLMaxKey
SLVals == 1..2
SLMaxNodes == SLMaxKey
SLHeader == SLMaxNodes + 1
SLJunk == -1

SLFreeNode == [live |-> FALSE, key |-> 0, val |-> NULL, level |-> 0,
               fwd |-> <<>>]

\* create_node / node_create: every forward pointer starts NULL
SL_create_node(level, key, val) ==
    [live |-> TRUE, key |-> key, val |-> val, level |-> level,
     fwd |-> [i \in 1..level |-> NULL]]

\* random_level: p is strictly between 0 and 1, so every level from 1 to
\* max_level can come out
SL_random_level(L) == 1..L.max_level

\* variant 1 refuses a max_level outside 1..SKIPLIST_MAX_LEVEL (the model
\* starts from a list that was created); variant 2 raises it to 1
SL_skiplist_create(variant, max_level) ==
    LET ml == IF variant = 2 /\ max_level < 1 THEN 1 ELSE max_level
    IN  [variant |-> variant, max_level |-> ml, level |-> 1, size |-> 0,
         nodes |-> [a \in 1..SLHeader |->
                        IF a = SLHeader THEN SL_create_node(ml, 0, NULL)
                        ELSE SLFreeNode],
         ub |-> FALSE]

SLFwd(L, x, i) == L.nodes[x].fwd[i + 1]

\* "while (x->forward[i] && x->forward[i]->key < key) x = x->forward[i]"
RECURSIVE SL_walk(_, _, _, _)
SL_walk(L, x, i, key) ==
    IF SLFwd(L, x, i) /= NULL /\ L.nodes[SLFwd(L, x, i)].key < key
    THEN SL_walk(L, SLFwd(L, x, i), i, key)
    ELSE x

\* "for (i = sl->level - 1; i >= 0; i--) { walk; update[i] = x; }"
RECURSIVE SL_descend(_, _, _, _, _)
SL_descend(L, x, i, key, update) ==
    IF i >= 0
    THEN LET y == SL_walk(L, x, i, key)
         IN  SL_descend(L, y, i - 1, key, [update EXCEPT ![i + 1] = y])
    ELSE [x |-> x, update |-> update]

SL_find(L, key) ==
    SL_descend(L, SLHeader, L.level - 1, key,
               [i \in 1..L.max_level |-> SLJunk])

SL_skiplist_search(L, key) ==
    LET x == SLFwd(L, SL_find(L, key).x, 0)
    IN  x /= NULL /\ L.nodes[x].key = key

\* malloc: the lowest free address
SLNewAddr(L) == CHOOSE a \in 1..SLMaxNodes :
                    /\ ~L.nodes[a].live
                    /\ \A b \in 1..SLMaxNodes : ~L.nodes[b].live => a <= b

\* "n->forward[i] = update[i]->forward[i]; update[i]->forward[i] = n"
RECURSIVE SL_link(_, _, _, _, _)
SL_link(L, n, update, i, lvl) ==
    IF i < lvl
    THEN IF update[i + 1] = SLJunk THEN [L EXCEPT !.ub = TRUE]
         ELSE LET u == update[i + 1]
                  L1 == [L EXCEPT !.nodes[n].fwd[i + 1] = SLFwd(L, u, i)]
                  L2 == [L1 EXCEPT !.nodes[u].fwd[i + 1] = n]
              IN  SL_link(L2, n, update, i + 1, lvl)
    ELSE L

\* skiplist_insert without the test for a key already in the list
SL_skiplist_insert_no_dup_check(L, key, val, lvl) ==
    LET f == SL_find(L, key)
        update == [i \in 1..L.max_level |->
                       IF i > L.level /\ i <= lvl THEN SLHeader
                       ELSE f.update[i]]
        L1 == [L EXCEPT !.level = IF lvl > L.level THEN lvl ELSE L.level]
        n == SLNewAddr(L)
        L2 == [L1 EXCEPT !.nodes[n] =
                   SL_create_node(lvl, key, IF L.variant = 2 THEN val ELSE NULL)]
        L3 == SL_link(L2, n, update, 0, lvl)
    IN  [L |-> [L3 EXCEPT !.size = L.size + 1], ret |-> TRUE]

\* the result is [L |-> the list, ret |-> true / 1 or false / 0]
SL_skiplist_insert(L, key, val, lvl) ==
    LET f == SL_find(L, key)
        x == SLFwd(L, f.x, 0)
        update == [i \in 1..L.max_level |->
                       IF i > L.level /\ i <= lvl THEN SLHeader
                       ELSE f.update[i]]
        L1 == [L EXCEPT !.level = IF lvl > L.level THEN lvl ELSE L.level]
        n == SLNewAddr(L)
        L2 == [L1 EXCEPT !.nodes[n] =
                   SL_create_node(lvl, key, IF L.variant = 2 THEN val ELSE NULL)]
        L3 == SL_link(L2, n, update, 0, lvl)
    IN  IF x /= NULL /\ L.nodes[x].key = key
        THEN [L |-> IF L.variant = 2 THEN [L EXCEPT !.nodes[x].val = val]
                    ELSE L,
              ret |-> FALSE]
        ELSE [L |-> [L3 EXCEPT !.size = L.size + 1], ret |-> TRUE]

\* "if (update[i]->forward[i] == x) update[i]->forward[i] = x->forward[i]"
RECURSIVE SL_unlink(_, _, _, _)
SL_unlink(L, x, update, i) ==
    IF i < L.level
    THEN IF update[i + 1] = SLJunk THEN [L EXCEPT !.ub = TRUE]
         ELSE LET u == update[i + 1]
              IN  IF SLFwd(L, u, i) = x
                  THEN IF ~(i < L.nodes[x].level) THEN [L EXCEPT !.ub = TRUE]
                       ELSE SL_unlink([L EXCEPT !.nodes[u].fwd[i + 1] =
                                                    SLFwd(L, x, i)],
                                      x, update, i + 1)
                  ELSE SL_unlink(L, x, update, i + 1)
    ELSE L

\* "while (sl->level > 1 && sl->header->forward[sl->level - 1] == NULL)"
RECURSIVE SL_lower(_)
SL_lower(L) ==
    IF L.level > 1 /\ SLFwd(L, SLHeader, L.level - 1) = NULL
    THEN SL_lower([L EXCEPT !.level = L.level - 1])
    ELSE L

\* skiplist_erase leaving sl->level as it is
SL_skiplist_erase_keep_level(L, key) ==
    LET f == SL_find(L, key)
        x == SLFwd(L, f.x, 0)
        L1 == SL_unlink(L, x, f.update, 0)
        L2 == [L1 EXCEPT !.nodes[x] = SLFreeNode, !.size = L.size - 1]
    IN  IF x = NULL \/ L.nodes[x].key /= key THEN [L |-> L, ret |-> FALSE]
        ELSE IF L1.ub THEN [L |-> L1, ret |-> TRUE]
        ELSE [L |-> L2, ret |-> TRUE]

SL_skiplist_erase(L, key) ==
    LET f == SL_find(L, key)
        x == SLFwd(L, f.x, 0)
        L1 == SL_unlink(L, x, f.update, 0)
        L2 == [L1 EXCEPT !.nodes[x] = SLFreeNode, !.size = L.size - 1]
    IN  IF x = NULL \/ L.nodes[x].key /= key THEN [L |-> L, ret |-> FALSE]
        ELSE IF L1.ub THEN [L |-> L1, ret |-> TRUE]
        ELSE [L |-> SL_lower(L2), ret |-> TRUE]

\* ---- observation
\* the nodes linked at level i, in list order, at most fuel of them
RECURSIVE SLChain(_, _, _, _)
SLChain(L, x, i, fuel) ==
    IF x = NULL \/ fuel = 0 THEN <<>>
    ELSE <<x>> \o SLChain(L, SLFwd(L, x, i), i, fuel - 1)

SLLevelList(L, i) == SLChain(L, SLFwd(L, SLHeader, i), i, SLMaxNodes + 1)

SLKeysAt(L, i) ==
    [j \in 1..Len(SLLevelList(L, i)) |-> L.nodes[SLLevelList(L, i)[j]].key]

SLRange(s) == {s[j] : j \in 1..Len(s)}

\* The code compares node pointers only for equality: after every call the
\* nodes are renumbered in the order of the level-0 list.
SLCanon(L) ==
    LET chain == SLLevelList(L, 0)
        linked == SLRange(chain)
        rest == {a \in 1..SLMaxNodes : L.nodes[a].live /\ a \notin linked}
        Pos(a) == CHOOSE j \in 1..Len(chain) : chain[j] = a
        Rank(a) == Len(chain) + Cardinality({b \in rest : b <= a})
        new(a) == IF a = NULL \/ a = SLHeader THEN a
                  ELSE IF a \in linked THEN Pos(a)
                  ELSE IF a \in rest THEN Rank(a)
                  ELSE a
        old(b) == IF b <= Len(chain) THEN chain[b]
                  ELSE IF \E a \in rest : Rank(a) = b
                       THEN CHOOSE a \in rest : Rank(a) = b
                       ELSE NULL
        move(nd) == [nd EXCEPT !.fwd = [i \in 1..Len(nd.fwd) |-> new(nd.fwd[i])]]
    IN  IF L.ub \/ Len(chain) /= Cardinality(linked) THEN L
        ELSE [L EXCEPT !.nodes =
                  [b \in 1..SLHeader |->
                       IF b = SLHeader THEN move(L.nodes[SLHeader])
                       ELSE IF old(b) = NULL THEN SLFreeNode
                       ELSE move(L.nodes[old(b)])]]

\* ---- the machine: one call at a step; ref is the set of keys inserted
\* and not erased afterwards, last the call just made (was: the key was in
\* ref; same: the call left the size and the level-0 keys as they were)
InitSkip ==
    /\ \E variant \in 1..2, ml \in 1..SLMaxLevel :
           sl = SL_skiplist_create(variant, ml)
    /\ ref = {}
    /\ last = [op |-> "create", ret |-> TRUE, was |-> FALSE,
               same |-> TRUE]
    /\ t = <<>>
    /\ twin = <<>>
    /\ ns = <<>>
    /\ nsop = <<>>
    /\ drv = <<>>

SkipInsert(k, v, lvl) ==
    /\ ~sl.ub
    /\ lvl \in SL_random_level(sl)
    /\ LET r == SL_skiplist_insert(sl, k, v, lvl)
       IN  /\ sl' = SLCanon(r.L)
           /\ last' = [op |-> "insert", ret |-> r.ret,
                       was |-> k \in ref,
                       same |-> /\ r.L.size = sl.size
                                /\ SLKeysAt(r.L, 0) = SLKeysAt(sl, 0)]
    /\ ref' = ref \cup {k}
    /\ UNCHANGED <<t, twin, ns, nsop, drv>>

SkipErase(k) ==
    /\ ~sl.ub
    /\ LET r == SL_skiplist_erase(sl, k)
       IN  /\ sl' = SLCanon(r.L)
           /\ last' = [op |-> "erase", ret |-> r.ret,
                       was |-> k \in ref,
                       same |-> /\ r.L.size = sl.size
                                /\ SLKeysAt(r.L, 0) = SLKeysAt(sl, 0)]
    /\ ref' = ref \ {k}
    /\ UNCHANGED <<t, twin, ns, nsop, drv>>

SkipSearch(k) ==
    /\ ~sl.ub
    /\ last' = [op |-> "search", ret |-> SL_skiplist_search(sl, k),
                was |-> k \in ref, same |-> TRUE]
    /\ UNCHANGED <<sl, ref, t, twin, ns, nsop, drv>>

NextSkip ==
    \/ \E k \in SLKeys, v \in SLVals, lvl \in 1..SLMaxLevel :
           SkipInsert(k, v, lvl)
    \/ \E k \in SLKeys : SkipErase(k)
    \/ \E k \in SLKeys : SkipSearch(k)

SpecSkip == InitSkip /\ [][NextSkip]_vars

\* ================================================ claims, skip list
SLSetToSeq(S) ==
    [j \in 1..Cardinality(S) |->
         CHOOSE k \in S : Cardinality({m \in S : m < k}) = j - 1]

\* C34: for every sequence of skiplist_insert / skiplist_erase calls and
\* every choice of node levels in 1..max_level, in both variants,
\* skiplist_search(k) succeeds exactly when k was inserted and not erased
\* afterwards; an insert of a present key and an erase of an absent key
\* report failure and leave the size and the keys unchanged; size is the
\* number of keys held.
C34_SkipListIsASet ==
    /\ ~sl.ub
    /\ \A k \in SLKeys : SL_skiplist_search(sl, k) <=> k \in ref
    /\ sl.size = Cardinality(ref)
    /\ SLKeysAt(sl, 0) = SLSetToSeq(ref)
    /\ Cardinality({a \in 1..SLMaxNodes : sl.nodes[a].live}) = sl.size
    /\ last.op = "insert" => (last.ret <=> ~last.was)
    /\ last.op = "erase" => (last.ret <=> last.was)
    /\ last.op = "search" => (last.ret <=> last.was)
    /\ last.op \in {"insert", "erase"} /\ ~last.ret =>
           last.same

\* an insert of a key already in a list of several levels has been refused
C34_Witness ==
    /\ last.op = "insert" /\ last.was /\ ~last.ret
    /\ sl.level >= 2
    /\ sl.size >= 2

\* a is b with some of its elements left out
RECURSIVE IsSubsequence(_, _)
IsSubsequence(a, b) ==
    IF a = <<>> THEN TRUE
    ELSE IF b = <<>> THEN FALSE
    ELSE IF a[1] = b[1] THEN IsSubsequence(Tail(a), Tail(b))
    ELSE IsSubsequence(a, Tail(b))

\* C40: after every insert and erase the level-0 list is strictly
\* ascending, the list at each level i+1 is a subsequence of the list at
\* level i, 1 <= sl->level <= max_level, no node is linked at a level
\* >= sl->level, and after an erase the top level sl->level-1 is non-empty
\* unless sl->level = 1.
C40_SkipListLevels ==
    /\ ~sl.ub
    /\ \A j \in 1..(Len(SLKeysAt(sl, 0)) - 1) :
           SLKeysAt(sl, 0)[j] < SLKeysAt(sl, 0)[j + 1]
    /\ \A i \in 0..(sl.max_level - 2) :
           IsSubsequence(SLLevelList(sl, i + 1), SLLevelList(sl, i))
    /\ 1 <= sl.level /\ sl.level <= sl.max_level
    /\ \A i \in sl.level..(sl.max_level - 1) : SLLevelList(sl, i) = <<>>
    /\ \A a \in 1..SLMaxNodes :
           sl.nodes[a].live =>
               /\ sl.nodes[a].level >= 1 /\ sl.nodes[a].level <= sl.level
               /\ \A i \in 0..(sl.max_level - 1) :
                      a \in SLRange(SLLevelList(sl, i)) <=> i < sl.nodes[a].level
    /\ last.op = "erase" =>
           \/ sl.level = 1
           \/ SLLevelList(sl, sl.level - 1) /= <<>>

\* an erase has succeeded and left a list of several levels whose upper
\* level holds fewer nodes than the level below it; max_level is not reached
C40_Witness ==
    /\ last.op = "erase" /\ last.ret
    /\ sl.level >= 2 /\ sl.level < sl.max_level
    /\ Len(SLLevelList(sl, 1)) >= 1
    /\ Len(SLLevelList(sl, 1)) < Len(SLLevelList(sl, 0))

\* ===================================== claims, full tree: the assertions
\* no assert fails in the tree T as it stands nor in any call made on it
AssertsHold(T) ==
    /\ ~T.fault
    /\ T.peak <= T.max_keys + 1
    /\ \A x \in Live(T) :
           /\ size(T, x) <= T.nodes[x].max_keys
           /\ x /= T.root =>
                  parent_child_index(T, T.nodes[x].parent, x) >= 0
           /\ (~T.nodes[x].is_leaf \/ x /= T.root) =>
                  subtree_first_ok(T, x)
    /\ \A k \in Keys :
           /\ ~bptree_insert(Begin(T), k).fault
           /\ ~bptree_delete(Begin(T), k).fault
           /\ bptree_search(T, k) \in {0, 1}
    /\ bptree_height(T) >= 1

\* C35: for each of the three backends, no assertion of the tree or of a
\* node store fails in any state reachable through bptree_create / insert
\* / delete / search / height: every insert_at finds size < capacity, every
\* child looked up in its parent is found, subtree_first_key never reaches
\* an empty leaf and the splits are entered with exactly M keys.
C35_NoAssertFails ==
    /\ AssertsHold(t)
    /\ \A kd \in DOMAIN twin : AssertsHold(twin[kd])

\* an insert has filled a store to its capacity and split it, in a tree of
\* three levels over each backend
C35_Witness ==
    /\ DOMAIN twin = TwinKinds
    /\ last.op = "insert" /\ ~last.hit
    /\ t.peak = t.max_keys + 1
    /\ bptree_height(t) >= 3
    /\ \A kd \in TwinKinds :
           /\ twin[kd].ops = kd
           /\ twin[kd].peak = twin[kd].max_keys + 1

\* ================================== claims, full tree: routing bounds
\* C36: in every tree reachable by inserts and deletes, for every internal
\* node and every store index i, every key in the subtree of child[i] is
\* strictly less than key[i] and every key in the subtree of child[i+1] is
\* greater than or equal to key[i]: separators stay valid routing bounds
\* even when they are not the exact subtree minimum.
C36_SeparatorsRoute ==
    \A x \in Internals(t) : \A i \in 0..(size(t, x) - 1) :
        /\ \A k \in SubtreeKeys(t, parent_child_at(t, x, i)) :
               k < key_at(t, x, i)
        /\ \A k \in SubtreeKeys(t, parent_child_at(t, x, i + 1)) :
               k >= key_at(t, x, i)

\* a delete has left a separator below the minimum of the subtree to its
\* right
C36_Witness ==
    /\ last.op = "delete" /\ last.hit
    /\ \E x \in Internals(t) : \E i \in 0..(size(t, x) - 1) :
           /\ SubtreeKeys(t, parent_child_at(t, x, i + 1)) /= {}
           /\ key_at(t, x, i) <
                  SetMin(SubtreeKeys(t, parent_child_at(t, x, i + 1)))

\* ======================================= claims, full tree: ownership
\* destroy_subtree: post-order, children first; reaching a node that has
\* been destroyed already is a use after free, marked as a fault
RECURSIVE destroy_subtree(_, _)
RECURSIVE destroy_children(_, _, _)
destroy_children(T, cs, i) ==
    IF i > Len(cs) THEN T
    ELSE destroy_children(destroy_subtree(T, cs[i]), cs, i + 1)

destroy_subtree(T, x) ==
    IF T.fault \/ x = NULL THEN T
    ELSE IF ~T.nodes[x].live THEN Fault(T)
    ELSE IF ~T.nodes[x].is_leaf
         THEN node_destroy(destroy_children(T, Children(T, x), 1), x)
         ELSE node_destroy(T, x)

\* bptree_destroy: free(t) leaves no tree; the heap it leaves is kept here
bptree_destroy(T) == destroy_subtree(T, T.root)

\* the addresses the live node x points to
LinksOf(T, x) ==
    {T.nodes[x].parent, T.nodes[x].next, T.nodes[x].child0}
        \cup {T.nodes[x].store[i].val : i \in 1..size(T, x)}

\* how many child links of live internal nodes point to n
RefCount(T, n) ==
    Cardinality({p \in Live(T) : ~T.nodes[p].is_leaf /\ Refs(T, p, n) >= 1})

\* C37: after every insert or delete the live nodes are the nodes reachable
\* from the root through child0 and value-slot links, each reachable
\* exactly once; no destroyed node is referenced by a child link, a parent
\* link or a leaf next link; hence bptree_destroy releases every node
\* exactly once.
C37_TreeOwnsItsNodes ==
    /\ ~t.fault
    /\ Live(t) = TreeNodes(t)
    /\ RefCount(t, t.root) = 0
    /\ \A n \in Live(t) \ {t.root} :
           /\ RefCount(t, n) = 1
           /\ \A p \in Live(t) : ~t.nodes[p].is_leaf => Refs(t, p, n) <= 1
    /\ \A x \in Live(t) : LinksOf(t, x) \subseteq Live(t) \cup {NULL}
    /\ LET D == bptree_destroy(Begin(t))
       IN  /\ ~D.fault
           /\ Live(D) = {}
           /\ D.freed = Cardinality(Live(t))

\* a delete has destroyed a node of a tree that still has internal nodes
\* below its root
C37_Witness ==
    /\ last.op = "delete" /\ last.hit
    /\ t.freed >= 1
    /\ bptree_height(t) >= 3
    /\ Cardinality(Live(t)) >= 7

\* ===================================== claims, full tree: height steps
\* the root of T has split: R has a new root with one key whose child0 is
\* the old root, and the old root was full
RootHasSplit(T, R) ==
    /\ R.root /= T.root
    /\ ~T.nodes[R.root].live
    /\ ~R.nodes[R.root].is_leaf
    /\ size(R, R.root) = 1
    /\ R.nodes[R.root].child0 = T.root
    /\ size(T, T.root) = T.max_keys

\* C38: a single bptree_insert never lowers the height and raises it by at
\* most 1, and only when the root itself splits; a single bptree_delete
\* never raises the height and lowers it by at most 1; bptree_search and
\* bptree_height read the tree only (they yield a value, never a tree).
C38_HeightSteps ==
    \A k \in Keys :
        LET h == bptree_height(t)
            I == bptree_insert(Begin(t), k)
            D == bptree_delete(Begin(t), k)
        IN  /\ bptree_height(I) \in {h, h + 1}
            /\ bptree_height(I) = h + 1 <=> RootHasSplit(t, I)
            /\ bptree_height(I) = h => I.root = t.root
            /\ bptree_height(D) \in {h - 1, h}
            /\ bptree_height(D) = h - 1 =>
                   /\ D.root = t.nodes[t.root].child0
                   /\ ~D.nodes[t.root].live
            /\ bptree_search(t, k) \in {0, 1}

\* a delete has just lowered a tree to two levels and one more insert would
\* raise it to three again
C38_Witness ==
    /\ last.op = "delete" /\ last.hit
    /\ t.freed >= 2
    /\ bptree_height(t) = 2
    /\ \E k \in Keys : bptree_height(bptree_insert(Begin(t), k)) = 3

\* ============================ claims, node store: a key already held
\* the last call was insert_at(s, i, k, v) within range and size < capacity
InsertedInRange == nsop.op = "insert_at" /\ InsertInRange

HeldBefore == \E j \in 1..Len(nsop.pre) : nsop.pre[j].key = nsop.key

\* the entries before the call with (k, v) put at index i
WithEntryAt ==
    SubSeq(nsop.pre, 1, nsop.idx)
        \o <<Entry(nsop.key, nsop.val)>>
        \o SubSeq(nsop.pre, nsop.idx + 1, Len(nsop.pre))

\* what the three backends do alike, and the array and the list with a key
\* already held: the entry goes in at index i
OthersInsert ==
    (InsertedInRange /\ (~HeldBefore \/ ns.kind /= NODESTORE_SKIPLIST)) =>
        /\ ns.ok
        /\ AbsSeq(ns) = WithEntryAt

\* C39, as stated: insert_at(s, i, k, v) of the skip mirror with a key k
\* already present in the store leaves the store unchanged (size, keys and
\* values; v is discarded), whereas the array and the linked list insert a
\* second entry at index i; the three backends differ on no other insert.
C39_SkipRefusesHeldKey ==
    /\ OthersInsert
    /\ (InsertedInRange /\ HeldBefore /\ ns.kind = NODESTORE_SKIPLIST) =>
           /\ ns.ok
           /\ AbsSeq(ns) = nsop.pre
           /\ ops_capacity(ns) = nsop.cap

\* C39, amended: the same for a store whose keys are strictly ascending
\* before the call.
C39_SkipRefusesHeldKeyAscending ==
    /\ OthersInsert
    /\ ( /\ InsertedInRange /\ HeldBefore /\ ns.kind = NODESTORE_SKIPLIST
         /\ KeysAscending(nsop.pre) ) =>
           /\ ns.ok
           /\ AbsSeq(ns) = nsop.pre
           /\ ops_capacity(ns) = nsop.cap
           /\ SkipMirrors(ns)

\* the skip mirror has refused a key it held, in a store of two ascending
\* keys with room for a third
C39_Witness ==
    /\ InsertedInRange /\ HeldBefore
    /\ ns.kind = NODESTORE_SKIPLIST /\ ns.ok
    /\ KeysAscending(nsop.pre)
    /\ Len(nsop.pre) = 2
    /\ AbsSeq(ns) = nsop.pre

\* ======================================= claims, simple tree (continued)
\* C14: once every inserted key has been deleted the simple tree is a
\* single empty leaf of height 1, and at every step every non-root leaf
\* keeps at least ceil((M-1)/2) keys.
C14_SimpleDeleteAll ==
    /\ (ref = {}) =>
           /\ t.nodes[t.root].is_leaf
           /\ size(t, t.root) = 0
           /\ bptree_height(t) = 1
    /\ \A x \in Leaves(t) \ {t.root} :
           size(t, x) >= CeilDiv(t.order_M - 1, 2)

====
